---- MODULE Spec2Model ----
(***************************************************************************)
(* CoinCal backend: the diet-plan request handler (api/views.py,           *)
(* generate_plan), the profile row it reads and writes (api/models.py,     *)
(* UserProfile) and the two other handlers that write the same row         *)
(* (manage_water, manage_profile).                                         *)
(*                                                                         *)
(* Units.  Money is counted in piasters (1 EGP = 100), so that the         *)
(* DecimalField(decimal_places=2) prices and a budget such as 0.01 EGP are *)
(* integers.  Protein is counted in tenths of a gram.  Weights and heights *)
(* are whole kilograms and centimetres.  A request field that is absent    *)
(* (or otherwise falsy in Python: None, 0, "") is written 0.               *)
(*                                                                         *)
(* Reading of views.py.  The file has an `except Exception` clause at      *)
(* line 1795 whose `try:` is missing; the statements from line 1499 to     *)
(* line 1793 are indented as the body of that try.  The model reads them   *)
(* as a try block that follows the slot configuration for every meal       *)
(* count.                                                                  *)
(***************************************************************************)
EXTENDS Integers, Sequences, FiniteSets, TLC

\* ------------------------------------------------------------------ bounds
NumRequests == 2
MaxCalls == 6
MaxConcurrentCalls == 2
MaxOtherCalls == 1
MaxSubmissions == 2
MaxLogCalls == 2

Requests == 1..NumRequests

\* ------------------------------------------------------- program constants
MIN_MEALS == 1
MAX_MEALS == 10
DEFAULT_MEALS == 3
MIN_TARGET_CALORIES == 500
MIN_DAILY_BUDGET == 100
DEFAULT_DAILY_BUDGET == 5000
SIDE_CALORIE_LIMIT == 150
NUM_STRATEGIES == 5
PCT_DEN == 2100

STRATEGY_NAMES ==
  << "Balanced (Standard)", "High Protein", "Budget Saver",
     "High Energy (Carbs)", "Variety Shuffle" >>

\* ------------------------------------------------------------ small helpers
Max(a, b) == IF a >= b THEN a ELSE b

Min(a, b) == IF a <= b THEN a ELSE b

\* Python's int(x) and a // b for a non-negative numerator and positive b
FloorDiv(a, b) == a \div b

\* math.ceil(a / b) for a >= 0, b > 0
CeilDiv(a, b) == (a + b - 1) \div b

RECURSIVE SumSeq(_)
SumSeq(s) == IF s = << >> THEN 0 ELSE Head(s) + SumSeq(Tail(s))

Range(s) == { s[i] : i \in DOMAIN s }

RemoveAt(s, i) == SubSeq(s, 1, i - 1) \o SubSeq(s, i + 1, Len(s))

\* all orders a list can be left in by random.shuffle
RECURSIVE Shuffles(_)
Shuffles(s) ==
  IF s = << >> THEN { << >> }
  ELSE UNION { { << s[i] >> \o t : t \in Shuffles(RemoveAt(s, i)) } : i \in DOMAIN s }

\* Decimal.quantize to a multiple of 1/d of a non-negative n/d (ROUND_HALF_EVEN)
RoundHalfEven(n, d) ==
  LET q == n \div d
      r == n % d
  IN  IF 2 * r > d THEN q + 1
      ELSE IF 2 * r < d THEN q
      ELSE IF q % 2 = 0 THEN q ELSE q + 1

\* a value read from a request or passed as an optional argument: missing
\* (None), text that int() rejects, or an integer
Absent == [ tag |-> "absent", n |-> 0 ]

NotANumber == [ tag |-> "text", n |-> 0 ]

Number(n) == [ tag |-> "int", n |-> n ]

\* ------------------------------------------------------------ stored tables
\* `kw in name.lower()` for the keywords the handler and the models test:
\* the listed keywords that occur in each name of the tables below.
KeywordsIn(name) ==
  CASE name = "white rice"      -> { "rice" }
    [] name = "liver sandwich"  -> { "sandwich", "sand" }
    [] name = "koshary"         -> { "koshary" }
    [] name = "foul"            -> { "foul", "ful" }
    [] name = "egg wrap"        -> { "egg" }
    [] name = "plain rice"      -> { "rice" }
    [] name = "yogurt salad"    -> { "salad" }
    [] name = "rice bowl"       -> { "rice" }
    [] OTHER                    -> { }

Contains(name, kw) == kw \in KeywordsIn(name)

ContainsAny(name, kws) == \E kw \in kws : Contains(name, kw)

\* MarketPrice rows joined with their BaseMeal (select_related('meal'))
MarketPrices ==
  << [ meal_id |-> 1, name |-> "omelette", meal_type |-> "Breakfast",
       calories |-> 300, protein_g |-> 180, price_egp |-> 1500 ],
     [ meal_id |-> 3, name |-> "white rice", meal_type |-> "Lunch",
       calories |-> 200, protein_g |-> 40, price_egp |-> 500 ],
     [ meal_id |-> 4, name |-> "grilled chicken", meal_type |-> "Dinner",
       calories |-> 500, protein_g |-> 450, price_egp |-> 6000 ],
     [ meal_id |-> 5, name |-> "tea", meal_type |-> "Snack",
       calories |-> 0, protein_g |-> 0, price_egp |-> 300 ],
     [ meal_id |-> 6, name |-> "liver sandwich", meal_type |-> "Lunch",
       calories |-> 0, protein_g |-> 0, price_egp |-> 800 ] >>

\* Ingredient rows: nutrition per 100 g in hundredths, base_price in piasters
Ingredients ==
  [ rice      |-> [ unit |-> "GRAM", calories_per_100g |-> 13000,
                    protein_per_100g |-> 270, carbs_per_100g |-> 2800,
                    fat_per_100g |-> 30, fiber_per_100g |-> 40,
                    base_price |-> 300 ],
    lentils   |-> [ unit |-> "GRAM", calories_per_100g |-> 11600,
                    protein_per_100g |-> 900, carbs_per_100g |-> 2000,
                    fat_per_100g |-> 40, fiber_per_100g |-> 790,
                    base_price |-> 400 ],
    beans     |-> [ unit |-> "GRAM", calories_per_100g |-> 11000,
                    protein_per_100g |-> 760, carbs_per_100g |-> 1970,
                    fat_per_100g |-> 40, fiber_per_100g |-> 540,
                    base_price |-> 250 ],
    test_rice |-> [ unit |-> "GRAM", calories_per_100g |-> 36000,
                    protein_per_100g |-> 700, carbs_per_100g |-> 8000,
                    fat_per_100g |-> 50, fiber_per_100g |-> 0,
                    base_price |-> 0 ],
    yogurt    |-> [ unit |-> "ML", calories_per_100g |-> 6125,
                    protein_per_100g |-> 347, carbs_per_100g |-> 466,
                    fat_per_100g |-> 325, fiber_per_100g |-> 0,
                    base_price |-> 455 ],
    egg       |-> [ unit |-> "PIECE", calories_per_100g |-> 15500,
                    protein_per_100g |-> 1260, carbs_per_100g |-> 112,
                    fat_per_100g |-> 1061, fiber_per_100g |-> 0,
                    base_price |-> 600 ] ]

\* EgyptianMeal rows with their MealRecipe lines (percentage in whole percent)
EgyptianMeals ==
  << [ id |-> 1, meal_id |-> "koshary", name_en |-> "koshary",
       default_serving_weight_g |-> 300,
       recipe_items |-> << [ ingredient |-> "rice", percentage |-> 50 ],
                           [ ingredient |-> "lentils", percentage |-> 50 ] >> ],
     [ id |-> 2, meal_id |-> "foul", name_en |-> "foul",
       default_serving_weight_g |-> 250,
       recipe_items |-> << [ ingredient |-> "beans", percentage |-> 100 ] >> ] >>

\* the UserCustomMeal rows a user may own
CustomMealTables ==
  { << >>,
    << [ id |-> 1, name |-> "protein shake", calories |-> 450, protein_g |-> 300 ] >> }

\* a UserCustomMeal table with a meal high in calories and low in protein
GranolaTable ==
  << [ id |-> 2, name |-> "granola bowl", calories |-> 700, protein_g |-> 50 ] >>

\* the EgyptianMeal rows the meal endpoints are called on: the catalog, the
\* fixture of tests.py (setUp, 'Plain Rice'), a meal of two ingredients and
\* a meal whose MealRecipe lines have not been entered
EngineMeals ==
  EgyptianMeals \o
  << [ id |-> 3, meal_id |-> "test_rice_meal", name_en |-> "plain rice",
       default_serving_weight_g |-> 200,
       recipe_items |-> << [ ingredient |-> "test_rice", percentage |-> 100 ] >> ],
     [ id |-> 4, meal_id |-> "yogurt_salad", name_en |-> "yogurt salad",
       default_serving_weight_g |-> 150,
       recipe_items |-> << [ ingredient |-> "yogurt", percentage |-> 70 ],
                           [ ingredient |-> "egg", percentage |-> 30 ] >> ],
     [ id |-> 5, meal_id |-> "empty_plate", name_en |-> "empty plate",
       default_serving_weight_g |-> 300,
       recipe_items |-> << >> ],
     [ id |-> 6, meal_id |-> "rice_bowl", name_en |-> "rice bowl",
       default_serving_weight_g |-> 200,
       recipe_items |-> << [ ingredient |-> "rice", percentage |-> 100 ] >> ] >>

\* the Recipe rows (Recipe Studio) a user may own, with their RecipeItem lines
RecipeTables ==
  { << >>,
    << [ id |-> 1, name |-> "plain water jug", servings |-> 1, items |-> << >> ] >>,
    << [ id |-> 1, name |-> "egg wrap", servings |-> 2,
         items |-> << [ ingredient |-> "rice", amount |-> 200 ] >> ] >> }

\* ------------------------------------------- composition engine (models.py)
\* `if weight_g is None: weight_g = self.default_serving_weight_g`;
\* ServingWeight_DefaultOnly takes the default whatever weight is given
ServingWeight_DefaultOnly(meal, weight_g) == meal.default_serving_weight_g

ServingWeight(meal, weight_g) ==
  IF weight_g = Absent THEN meal.default_serving_weight_g ELSE weight_g.n

\* the loop of get_price (410..434): the summed ingredient cost, in units of
\* 1/10000 piaster; both branches on the ingredient's unit compute the same
RawCost(meal, weight_g) ==
  LET lines == meal.recipe_items
      w_decimal == ServingWeight(meal, weight_g)
      cost(i) == IF Ingredients[lines[i].ingredient].unit \in { "GRAM", "ML" }
                 THEN w_decimal * lines[i].percentage
                        * Ingredients[lines[i].ingredient].base_price
                 ELSE w_decimal * lines[i].percentage
                        * Ingredients[lines[i].ingredient].base_price
  IN  SumSeq([ i \in DOMAIN lines |-> cost(i) ])

\* line 437: the names that get the lower markup
MarkupKeywords ==
  { "sandwich", "pudding", "foul", "tameya", "basbousa", "om ali", "baba",
    "side", "salad", "tahini", "dip", "hawawshi", "koshary", "fiteer",
    "zalabya" }

\* line 439: the markup in tenths; Markup_Flat applies no markup at all
Markup_Flat(meal) == 10

Markup(meal) == IF ContainsAny(meal.name_en, MarkupKeywords) THEN 16 ELSE 22

\* EgyptianMeal.get_price: whole EGP, returned here in piasters
get_price(meal, weight_g) ==
  LET total_cost == RawCost(meal, weight_g)
  IN  100 * CeilDiv(total_cost * Markup(meal), 10000000)

\* the five nutrients of calculate_nutrition (473..479)
Nutrients == { "calories", "protein", "carbs", "fat", "fiber" }

Per100Field(nutrient) ==
  CASE nutrient = "calories" -> "calories_per_100g"
    [] nutrient = "protein"  -> "protein_per_100g"
    [] nutrient = "carbs"    -> "carbs_per_100g"
    [] nutrient = "fat"      -> "fat_per_100g"
    [] nutrient = "fiber"    -> "fiber_per_100g"

\* NutrientTotal_RoundedLines quantizes every line's contribution before it is
\* added
NutrientTotal_RoundedLines(meal, weight_g, nutrient) ==
  LET lines == meal.recipe_items
      w_decimal == ServingWeight(meal, weight_g)
      part(i) == Ingredients[lines[i].ingredient][Per100Field(nutrient)]
                   * w_decimal * lines[i].percentage
  IN  100000 * SumSeq([ i \in DOMAIN lines |-> RoundHalfEven(part(i), 100000) ])

\* the loop of calculate_nutrition (482..491): one nutrient's unrounded total,
\* in units of 1/1000000
NutrientTotal(meal, weight_g, nutrient) ==
  LET lines == meal.recipe_items
      w_decimal == ServingWeight(meal, weight_g)
      part(i) == Ingredients[lines[i].ingredient][Per100Field(nutrient)]
                   * w_decimal * lines[i].percentage
  IN  SumSeq([ i \in DOMAIN lines |-> part(i) ])

\* EgyptianMeal.calculate_nutrition: the nutrients in tenths (quantize of line
\* 493), the price in piasters; weight_g is passed on to get_price as given
calculate_nutrition(meal, weight_g) ==
  [ calories |-> RoundHalfEven(NutrientTotal(meal, weight_g, "calories"), 100000),
    protein  |-> RoundHalfEven(NutrientTotal(meal, weight_g, "protein"), 100000),
    carbs    |-> RoundHalfEven(NutrientTotal(meal, weight_g, "carbs"), 100000),
    fat      |-> RoundHalfEven(NutrientTotal(meal, weight_g, "fat"), 100000),
    fiber    |-> RoundHalfEven(NutrientTotal(meal, weight_g, "fiber"), 100000),
    price    |-> get_price(meal, weight_g) ]

\* ------------------------------------------------ UserProfile (models.py)
\* utils/location_helpers.py: the rows of CITY_CATEGORIES the city names of
\* this model reach
CITY_CATEGORIES ==
  [ cairo |-> "metro", alexandria |-> "major_city", tanta |-> "regional",
    sohag |-> "provincial" ]

\* city_name.lower().strip() on the city names of this model
lower_strip(city_name) ==
  CASE city_name \in { "Cairo", "cairo" }                     -> "cairo"
    [] city_name \in { "Sohag", " SOHAG ", "sohag" }           -> "sohag"
    [] city_name \in { "Alexandria", "alexandria " }           -> "alexandria"
    [] city_name = "Tanta"                                     -> "tanta"
    [] city_name = "Atlantis"                                  -> "atlantis"
    [] city_name \in { "", "  " }                              -> ""
    [] OTHER                                                   -> city_name

\* get_city_category (location_helpers.py 63..72);
\* get_city_category_NoNormalize looks the name up as it was entered
get_city_category_NoNormalize(city_name) ==
  IF city_name \in DOMAIN CITY_CATEGORIES THEN CITY_CATEGORIES[city_name]
  ELSE "metro"

get_city_category(city_name) ==
  IF city_name = "" THEN "metro"
  ELSE LET normalized == lower_strip(city_name)
       IN  IF normalized \in DOMAIN CITY_CATEGORIES
           THEN CITY_CATEGORIES[normalized]
           ELSE "metro"

\* utils/location_helpers.py: LOCATION_MULTIPLIERS, in hundredths
LOCATION_MULTIPLIERS ==
  [ metro |-> 100, major_city |-> 95, regional |-> 88, provincial |-> 80,
    rural |-> 70 ]

\* LOCATION_MULTIPLIERS.get(category, 1.0), in hundredths
get_multiplier_for_category(category) ==
  IF category \in DOMAIN LOCATION_MULTIPLIERS THEN LOCATION_MULTIPLIERS[category]
  ELSE 100

\* UserProfile.get_location_multiplier
get_location_multiplier(p) == get_multiplier_for_category(p.location_category)

\* AbstractMeal.get_price_for_location (models.py 38..48): the multipliers in
\* hundredths, the price in hundredths of a piaster
AbstractMealMultipliers ==
  [ metro |-> 100, major_city |-> 95, regional |-> 88, provincial |-> 80,
    rural |-> 70 ]

AbstractMeal_get_price_for_location(base_price, location_category) ==
  LET multiplier == IF location_category \in DOMAIN AbstractMealMultipliers
                    THEN AbstractMealMultipliers[location_category]
                    ELSE 100
  IN  base_price * multiplier

\* Ingredient.get_price_for_location (models.py 358..368)
IngredientMultipliers ==
  [ metro |-> 100, major_city |-> 95, regional |-> 88, provincial |-> 80,
    rural |-> 70 ]

\* Ingredient_get_price_for_location_RuralDefault takes the last row of the
\* table for a category that is not in it
Ingredient_get_price_for_location_RuralDefault(base_price, location_category) ==
  LET multiplier == IF location_category \in DOMAIN IngredientMultipliers
                    THEN IngredientMultipliers[location_category]
                    ELSE IngredientMultipliers["rural"]
  IN  base_price * multiplier

Ingredient_get_price_for_location(base_price, location_category) ==
  LET multiplier == IF location_category \in DOMAIN IngredientMultipliers
                    THEN IngredientMultipliers[location_category]
                    ELSE 100
  IN  base_price * multiplier

\* MealLog.save (models.py 229..236, 255 and 261): the fallback price
MealLogMultipliers ==
  [ metro |-> 100, major_city |-> 95, regional |-> 88, provincial |-> 80,
    rural |-> 70 ]

MealLog_fallback_price(base_price, location_category) ==
  LET multiplier == IF location_category \in DOMAIN MealLogMultipliers
                    THEN MealLogMultipliers[location_category]
                    ELSE 100
  IN  base_price * multiplier

\* Python's int() of a quotient: truncation toward zero
TruncDiv(a, b) == IF a >= 0 THEN a \div b ELSE -((-a) \div b)

\* utils/nutrition.py calculate_bmr, in thousandths of a kcal
calculate_bmr(weight, height, age, gender, body_fat, is_premium) ==
  IF is_premium /\ body_fat # 0
  THEN 370000 + 216 * weight * (100 - body_fat)
  ELSE IF gender = "M"
       THEN 10000 * weight + 6250 * height - 5000 * age + 5000
       ELSE 10000 * weight + 6250 * height - 5000 * age - 161000

\* utils/nutrition.py calculate_tdee: the multiplier times 40
TdeeMultiplier40(activity_level) ==
  CASE activity_level \in { "Light", "Lightly Active" }       -> 55
    [] activity_level \in { "Moderate", "Moderately Active" } -> 62
    [] activity_level \in { "Active", "Very Active" }         -> 69
    [] activity_level = "Extremely Active"                    -> 76
    [] OTHER                                                  -> 48

\* tdee in units of 1/40000 kcal
calculate_tdee(bmr, activity_level) == bmr * TdeeMultiplier40(activity_level)

get_caloric_balance(tdee, current_weight, goal_weight) ==
  IF goal_weight < current_weight THEN TruncDiv(tdee - 500 * 40000, 40000)
  ELSE IF goal_weight > current_weight THEN TruncDiv(tdee + 500 * 40000, 40000)
  ELSE TruncDiv(tdee, 40000)

\* UserProfile.save: the fields it recomputes; super().save() then writes
\* every column of the row
ProfileBeforeSave(p) ==
  LET bmr  == calculate_bmr(p.weight, p.height, p.age, p.gender,
                            p.body_fat_percentage, p.is_premium)
      tdee == calculate_tdee(bmr, p.activity_level)
  IN  [ p EXCEPT
          !.location_category =
             IF p.current_location # "" THEN get_city_category(p.current_location)
             ELSE p.location_category,
          !.calorie_goal = get_caloric_balance(tdee, p.weight, p.goal_weight) ]

\* the field defaults of the model, as a row created through save()
NewProfile(budget, variant) ==
  ProfileBeforeSave(
    [ weight |-> 70, height |-> 170, goal_weight |-> 70,
      daily_budget_limit |-> budget, calorie_goal |-> 0,
      age |-> 20, gender |-> "M", activity_level |-> "Sedentary",
      current_location |-> "Cairo", location_category |-> "metro",
      is_premium |-> FALSE, body_fat_percentage |-> 0,
      hydration_level |-> 1, total_glasses_lifetime |-> 0,
      current_hydration_streak |-> 0, best_hydration_streak |-> 0,
      current_weight |-> 0, last_plan_variant |-> variant ])

ProfileFields == DOMAIN NewProfile(0, 0)

\* ------------------------------------- generate_plan: targets (1164..1241)
\* the Mifflin-St Jeor fallback of the handler, bmr in hundredths
HandlerTdee(p) ==
  LET current_weight == IF p.current_weight # 0 THEN p.current_weight ELSE 70
      height   == IF p.height # 0 THEN p.height ELSE 170
      age      == IF p.age # 0 THEN p.age ELSE 25
      gender   == IF p.gender # "" THEN p.gender ELSE "M"
      activity == IF p.activity_level # "" THEN p.activity_level ELSE "Moderate"
      base_bmr == 1000 * current_weight + 625 * height - 500 * age
      bmr      == IF gender = "M" THEN base_bmr + 500 ELSE base_bmr - 16100
      factor   == CASE activity = "Sedentary"   -> 1200
                    [] activity = "Light"       -> 1375
                    [] activity = "Active"      -> 1725
                    [] activity = "Very Active" -> 1900
                    [] OTHER                    -> 1550
  IN  TruncDiv(bmr * factor, 100000)

HandlerGoalCalories(p) ==
  LET current_weight == IF p.current_weight # 0 THEN p.current_weight ELSE 70
      target_weight  == IF p.goal_weight # 0 THEN p.goal_weight ELSE current_weight
      tdee == HandlerTdee(p)
      goal == IF target_weight < current_weight THEN tdee - 500
              ELSE IF target_weight > current_weight THEN tdee + 500
              ELSE tdee
  IN  Max(1200, Min(5000, goal))

\* lines 1189..1217 and the clamp of line 1240
ResolveTargetCalories(p, data) ==
  LET target_calories ==
        IF p.calorie_goal # 0 THEN p.calorie_goal
        ELSE IF data.target_calories # 0 THEN data.target_calories
        ELSE HandlerGoalCalories(p)
  IN  Max(MIN_TARGET_CALORIES, target_calories)

\* lines 1221..1229 and the clamp of line 1241; the first definition reads
\* the request's value before the profile's, the second is the handler's
ResolveDailyBudget_RequestFirst(p, data) ==
  LET daily_budget ==
        IF data.daily_budget # 0 THEN data.daily_budget
        ELSE IF p.daily_budget_limit # 0 /\ p.daily_budget_limit > 0
        THEN p.daily_budget_limit
        ELSE DEFAULT_DAILY_BUDGET
  IN  Max(MIN_DAILY_BUDGET, daily_budget)

ResolveDailyBudget(p, data) ==
  LET daily_budget ==
        IF p.daily_budget_limit # 0 /\ p.daily_budget_limit > 0
        THEN p.daily_budget_limit
        ELSE IF data.daily_budget # 0 THEN data.daily_budget
        ELSE DEFAULT_DAILY_BUDGET
  IN  Max(MIN_DAILY_BUDGET, daily_budget)

\* lines 1233..1239 (repeated at 1427..1431): int() of the field, 3 when it
\* is absent or not a number, clamped to 1..10
ResolveMealsCount(data) ==
  LET meals_count == IF data.meals_count.tag = "int" THEN data.meals_count.n
                     ELSE DEFAULT_MEALS
  IN  Max(MIN_MEALS, Min(MAX_MEALS, meals_count))

\* --------------------------------- generate_plan: the pools (1245..1420)
EmptyPools == [ breakfast |-> << >>, lunch |-> << >>, dinner |-> << >>,
                snack |-> << >> ]

\* add_to_pool: `'breakfast' in category.lower()` and so on
add_to_pool(pools, item_dict, category) ==
  CASE category = "Breakfast" ->
         [ pools EXCEPT !.breakfast = Append(@, item_dict) ]
    [] category = "Lunch" ->
         [ pools EXCEPT !.lunch = Append(@, item_dict) ]
    [] category = "Dinner" ->
         [ pools EXCEPT !.dinner = Append(@, item_dict) ]
    [] category = "Snack" ->
         [ pools EXCEPT !.snack = Append(@, item_dict),
                        !.breakfast = Append(@, item_dict) ]
    [] OTHER ->
         [ pools EXCEPT !.lunch = Append(@, item_dict) ]

\* the test of lines 1265 and 1288: the item is skipped when it holds; the
\* first definition is the handler without the test
OverBudget_Never(price, daily_budget) == FALSE

OverBudget(price, daily_budget) == price > daily_budget

\* A. Global items (1263..1278)
RECURSIVE AddGlobalItems(_, _, _)
AddGlobalItems(pools, global_items, daily_budget) ==
  IF global_items = << >> THEN pools
  ELSE LET item == Head(global_items)
           data == [ id |-> item.meal_id, name |-> item.name,
                     calories |-> item.calories, protein |-> item.protein_g,
                     price |-> item.price_egp, type |-> "global" ]
           next == IF OverBudget(item.price_egp, daily_budget) THEN pools
                   ELSE add_to_pool(pools, data, item.meal_type)
       IN  AddGlobalItems(next, Tail(global_items), daily_budget)

\* the keyword chain of lines 1303..1311 over meal_id.lower()
EgyptianCategory(mid) ==
  IF ContainsAny(mid, { "foul", "tameya", "beid", "shakshuka", "cheese", "falafel" })
  THEN "Breakfast"
  ELSE IF ContainsAny(mid, { "basbousa", "zalabya", "om_ali", "pudding", "halawa",
                             "honey", "sugar", "sweet" })
  THEN "Snack"
  ELSE IF ContainsAny(mid, { "sand", "liver_sand", "sausage_sand", "kofta_sand",
                             "shrimp", "mahshi", "soup" })
  THEN "Dinner"
  ELSE "Lunch"

\* B. Egyptian items (1281..1311); int(cals) drops the tenths
RECURSIVE AddEgyptianItems(_, _, _)
AddEgyptianItems(pools, egyptian_items, daily_budget) ==
  IF egyptian_items = << >> THEN pools
  ELSE LET item == Head(egyptian_items)
           calc == calculate_nutrition(item, Absent)
           data == [ id |-> item.id, name |-> item.name_en,
                     calories |-> calc.calories \div 10, protein |-> calc.protein,
                     price |-> calc.price, type |-> "egyptian" ]
           next == IF OverBudget(calc.price, daily_budget) THEN pools
                   ELSE add_to_pool(pools, data, EgyptianCategory(item.meal_id))
       IN  AddEgyptianItems(next, Tail(egyptian_items), daily_budget)

\* C. Custom items (1314..1327): price 0.0, no budget test
RECURSIVE AddCustomItems(_, _)
AddCustomItems(pools, custom_items) ==
  IF custom_items = << >> THEN pools
  ELSE LET item == Head(custom_items)
           data == [ id |-> item.id, name |-> item.name,
                     calories |-> item.calories, protein |-> item.protein_g,
                     price |-> 0, type |-> "custom" ]
           next == IF item.calories > 400
                   THEN [ pools EXCEPT !.lunch = Append(@, data),
                                       !.dinner = Append(@, data) ]
                   ELSE [ pools EXCEPT !.breakfast = Append(@, data),
                                       !.lunch = Append(@, data) ]
       IN  AddCustomItems(next, Tail(custom_items))

GatherPools(daily_budget, custom_items) ==
  AddCustomItems(
    AddEgyptianItems(
      AddGlobalItems(EmptyPools, MarketPrices, daily_budget),
      EgyptianMeals, daily_budget),
    custom_items)

\* "Ensure pools are not empty" (1330..1333): each line sees the pools as the
\* lines before it left them
BackfillPools(pools) ==
  LET b == IF pools.breakfast = << >> THEN pools.lunch \o pools.dinner
           ELSE pools.breakfast
      l == IF pools.lunch = << >> THEN b \o pools.dinner ELSE pools.lunch
      d == IF pools.dinner = << >> THEN b \o l ELSE pools.dinner
      s == IF pools.snack = << >> THEN b \o l ELSE pools.snack
  IN  [ breakfast |-> b, lunch |-> l, dinner |-> d, snack |-> s ]

\* line 1335
AllCandidates(pools) ==
  pools.breakfast \o pools.lunch \o pools.dinner \o pools.snack

side_keywords ==
  { "rice", "bread", "salad", "baladi", "vegetables", "cucumber", "tomato",
    "fino", "toast", "shamy", "peta", "dip", "tahina", "baba", "soup",
    "goulash_sweet", "sambousek", "kobeba", "turshi", "pickle" }

\* is_side_dish (1344..1354); the first definition is the function without
\* the test of lines 1351..1352
is_side_dish_NoExemption(item) ==
  ContainsAny(item.name, side_keywords) \/ item.calories < SIDE_CALORIE_LIMIT

is_side_dish(item) ==
  IF Contains(item.name, "sandwich") \/ Contains(item.name, "hawawshi")
  THEN FALSE
  ELSE ContainsAny(item.name, side_keywords) \/ item.calories < SIDE_CALORIE_LIMIT

NotSide(item) == ~ is_side_dish(item)

\* lines 1357..1364: the sides go to pool_sides and leave the three main pools
PoolSides(all_candidates) == SelectSeq(all_candidates, is_side_dish)

RemoveSides(pools) ==
  [ pools EXCEPT !.breakfast = SelectSeq(@, NotSide),
                 !.lunch = SelectSeq(@, NotSide),
                 !.dinner = SelectSeq(@, NotSide) ]

\* 3b. Custom recipes (1367..1420)
\* the attributes of an Ingredient instance (models.py 339..356)
IngredientAttributes ==
  { "name", "name_ar", "usda_id", "unit", "calories_per_100g",
    "protein_per_100g", "carbs_per_100g", "fat_per_100g", "fiber_per_100g",
    "base_price", "calories_per_unit", "is_common" }

\* line 1391 reads ing.price_per_unit for every line of a recipe: a recipe
\* with at least one line raises AttributeError there, outside any try
RecipeRaises(recipe) ==
  recipe.items # << >> /\ "price_per_unit" \notin IngredientAttributes

\* f"recipe_{recipe.id}", kept apart from the integer ids of the tables
RecipeIdOffset == 1000

\* a recipe whose item loop ran to its end without raising: the loop body
\* never ran, so the three totals are still 0 (1373..1375)
RecipeCandidate(recipe) ==
  LET total_cals == 0
      total_prot == 0
      total_cost == 0
  IN  [ id |-> RecipeIdOffset + recipe.id, name |-> recipe.name,
        calories |-> TruncDiv(total_cals, recipe.servings),
        protein |-> 10 * TruncDiv(total_prot, recipe.servings),
        price |-> TruncDiv(total_cost, recipe.servings),
        type |-> "custom" ]

RecipeIsBreakfast(name) ==
  ContainsAny(name, { "egg", "oat", "breakfast", "pancake", "toast", "ful", "beans" })

\* the loop of line 1371: [raised |-> TRUE] when a recipe raised, and the
\* pools with the recipes appended otherwise
RECURSIVE AddRecipes(_, _)
AddRecipes(pools, user_recipes) ==
  IF user_recipes = << >> THEN [ raised |-> FALSE, pools |-> pools ]
  ELSE LET recipe == Head(user_recipes)
           custom_obj == RecipeCandidate(recipe)
           next == IF recipe.servings > 0
                   THEN IF RecipeIsBreakfast(recipe.name)
                        THEN [ pools EXCEPT !.breakfast = Append(@, custom_obj) ]
                        ELSE [ pools EXCEPT !.lunch = Append(@, custom_obj),
                                            !.dinner = Append(@, custom_obj) ]
                   ELSE pools
       IN  IF RecipeRaises(recipe) THEN [ raised |-> TRUE, pools |-> pools ]
           ELSE AddRecipes(next, Tail(user_recipes))

\* ------------------------ generate_plan: slot configuration (1436..1497)
\* pct is in units of 1/PCT_DEN; pool names the list the slot refers to
Slot(name, pct, pool, sides) ==
  [ name |-> name, pct |-> pct, pool |-> pool, sides |-> sides ]

SnackName(k) ==
  CASE k = 1 -> "snack_1" [] k = 2 -> "snack_2" [] k = 3 -> "snack_3"
    [] k = 4 -> "snack_4" [] k = 5 -> "snack_5" [] k = 6 -> "snack_6"
    [] OTHER -> "snack_7"

\* SlotConfig_NoEveningSnacks is the configuration without the loop of lines
\* 1488..1491
SlotConfig_NoEveningSnacks(meals_count) ==
  IF meals_count = 1 THEN << Slot("dinner", 2100, "dinner", 4) >>
  ELSE IF meals_count = 2
  THEN << Slot("lunch", 1050, "lunch", 3), Slot("dinner", 1050, "dinner", 3) >>
  ELSE IF meals_count = 3
  THEN << Slot("breakfast", 630, "breakfast", 2), Slot("lunch", 840, "lunch", 3),
          Slot("dinner", 630, "dinner", 3) >>
  ELSE LET snack_count == meals_count - 3
           snack_pct == 420 \div snack_count
           snack(k) == Slot(SnackName(k), snack_pct, "snack", 0)
           morning == IF snack_count > 0 THEN << snack(1) >> ELSE << >>
           afternoon == IF snack_count > 1 THEN << snack(2) >> ELSE << >>
       IN  << Slot("breakfast", 525, "breakfast", 1) >> \o morning
             \o << Slot("lunch", 630, "lunch", 2) >> \o afternoon
             \o << Slot("dinner", 525, "dinner", 2) >>

SlotConfig(meals_count) ==
  IF meals_count = 1 THEN << Slot("dinner", 2100, "dinner", 4) >>
  ELSE IF meals_count = 2
  THEN << Slot("lunch", 1050, "lunch", 3), Slot("dinner", 1050, "dinner", 3) >>
  ELSE IF meals_count = 3
  THEN << Slot("breakfast", 630, "breakfast", 2), Slot("lunch", 840, "lunch", 3),
          Slot("dinner", 630, "dinner", 3) >>
  ELSE LET snack_count == meals_count - 3
           snack_pct == 420 \div snack_count
           snack(k) == Slot(SnackName(k), snack_pct, "snack", 0)
           morning == IF snack_count > 0 THEN << snack(1) >> ELSE << >>
           afternoon == IF snack_count > 1 THEN << snack(2) >> ELSE << >>
           evening == [ k \in 1..Max(0, snack_count - 2) |-> snack(k + 2) ]
       IN  << Slot("breakfast", 525, "breakfast", 1) >> \o morning
             \o << Slot("lunch", 630, "lunch", 2) >> \o afternoon
             \o << Slot("dinner", 525, "dinner", 2) >> \o evening

\* ------------------------------- generate_plan: strategy sort (1520..1571)
TOP_N == 30

MIN_PRICE_FOR_EFFICIENCY == 10

\* get_sort_key orders by eff = calories / max(0.1, price); a is ahead of b
\* in a descending sort when its eff is greater
EffGreater(a, b) ==
  a.calories * Max(MIN_PRICE_FOR_EFFICIENCY, b.price)
    > b.calories * Max(MIN_PRICE_FOR_EFFICIENCY, a.price)

\* the base sort of apply_strategy_sort: TRUE when a must come before b
SortsBefore(a, b, variant) ==
  CASE variant = 1 -> a.protein > b.protein
    [] variant = 2 -> a.price < b.price
    [] OTHER       -> EffGreater(a, b)

\* list.sort is stable: x goes behind every element it does not sort before
RECURSIVE InsertSorted(_, _, _)
InsertSorted(sorted, x, variant) ==
  IF sorted = << >> THEN << x >>
  ELSE IF SortsBefore(x, Head(sorted), variant) THEN << x >> \o sorted
  ELSE << Head(sorted) >> \o InsertSorted(Tail(sorted), x, variant)

RECURSIVE StableSort(_, _)
StableSort(pool, variant) ==
  IF pool = << >> THEN << >>
  ELSE InsertSorted(StableSort(SubSeq(pool, 1, Len(pool) - 1), variant),
                    pool[Len(pool)], variant)

\* apply_strategy_sort: the orders the pool can be left in
apply_strategy_sort(pool, variant) ==
  IF variant = 4 THEN Shuffles(pool)
  ELSE LET sorted == StableSort(pool, variant)
       IN  IF Len(sorted) > TOP_N
           THEN { top_tier \o SubSeq(sorted, TOP_N + 1, Len(sorted)) :
                    top_tier \in Shuffles(SubSeq(sorted, 1, TOP_N)) }
           ELSE Shuffles(sorted)

\* ---------------------------- generate_plan: selection pass (1573..1631)
\* int(target_calories * pct), and int(. * 1.1) for a slot above 15 percent
SlotCalTarget(target_calories, slot) ==
  LET cal_target == FloorDiv(target_calories * slot.pct, PCT_DEN)
  IN  IF 100 * slot.pct > 15 * PCT_DEN THEN FloorDiv(cal_target * 11, 10)
      ELSE cal_target

\* sorted(slots, key=pct, reverse=True): descending and stable
RECURSIVE InsertSlot(_, _)
InsertSlot(sorted, slot) ==
  IF sorted = << >> THEN << slot >>
  ELSE IF slot.pct > Head(sorted).pct THEN << slot >> \o sorted
  ELSE << Head(sorted) >> \o InsertSlot(Tail(sorted), slot)

RECURSIVE SortedSlots(_)
SortedSlots(slots) ==
  IF slots = << >> THEN << >>
  ELSE InsertSlot(SortedSlots(SubSeq(slots, 1, Len(slots) - 1)), slots[Len(slots)])

\* line 1605 (and 1642): the list a slot is filled from; the first
\* definition is the line without `else all_candidates`
SPool_NoFallback(pools, all_candidates, slot) == pools[slot.pool]

SPool(pools, all_candidates, slot) ==
  IF pools[slot.pool] # << >> THEN pools[slot.pool] ELSE all_candidates

NameIn(name, group) == \E i \in DOMAIN group : group[i].name = name

\* the loop of lines 1610..1631 over the rest of s_pool; acc carries the
\* slot's group, slot_cals and the three running totals
RECURSIVE FillSlot(_, _, _, _)
FillSlot(rest, acc, s_cal_target, daily_budget) ==
  IF rest = << >> THEN acc
  ELSE LET candidate == Head(rest)
       IN  IF NameIn(candidate.name, acc.group)
           THEN FillSlot(Tail(rest), acc, s_cal_target, daily_budget)
           ELSE IF acc.total_price + candidate.price > daily_budget
           THEN FillSlot(Tail(rest), acc, s_cal_target, daily_budget)
           ELSE IF acc.slot_cals < s_cal_target
           THEN FillSlot(Tail(rest),
                  [ group |-> Append(acc.group, candidate),
                    slot_cals |-> acc.slot_cals + candidate.calories,
                    total_price |-> acc.total_price + candidate.price,
                    total_cals |-> acc.total_cals + candidate.calories,
                    total_prot |-> acc.total_prot + candidate.protein ],
                  s_cal_target, daily_budget)
           ELSE acc

\* ------------------------------ generate_plan: upgrade pass (1633..1678)
UPGRADE_ITERATIONS == 3

CHECK_POOL_SIZE == 50

Prefix(s, n) == SubSeq(s, 1, Min(n, Len(s)))

\* the loop of lines 1656..1668 over the rest of the shuffled check_pool;
\* acc.found tells whether best_upgrade is set
RECURSIVE BestUpgrade(_, _, _, _, _)
BestUpgrade(rest, acc, current_item, group, remaining_budget) ==
  IF rest = << >> THEN acc
  ELSE LET candidate == Head(rest)
           price_diff == candidate.price - current_item.price
           protein_gain == candidate.protein - current_item.protein
           next ==
             IF NameIn(candidate.name, group) THEN acc
             ELSE IF 0 < price_diff /\ price_diff <= remaining_budget
             THEN IF protein_gain > acc.max_protein_gain
                  THEN [ found |-> TRUE, best_upgrade |-> candidate,
                         max_protein_gain |-> protein_gain ]
                  ELSE IF protein_gain = acc.max_protein_gain
                          /\ candidate.calories > current_item.calories
                  THEN [ acc EXCEPT !.found = TRUE, !.best_upgrade = candidate ]
                  ELSE acc
             ELSE acc
       IN  BestUpgrade(Tail(rest), next, current_item, group, remaining_budget)

\* what the try of one item can end with, over the shuffles of check_pool
UpgradeOutcomes(s_pool, current_item, group, remaining_budget) ==
  { BestUpgrade(check_pool,
                [ found |-> FALSE, best_upgrade |-> current_item,
                  max_protein_gain |-> 0 ],
                current_item, group, remaining_budget) :
      check_pool \in Shuffles(Prefix(s_pool, CHECK_POOL_SIZE)) }

\* the position after (pass, slot, item) in the three nested loops of lines
\* 1639..1645: the next item that exists, or pass = UPGRADE_ITERATIONS + 1
RECURSIVE NextItem(_, _, _, _, _)
NextItem(pass, slot, item, slots, meal_groups) ==
  IF pass > UPGRADE_ITERATIONS THEN [ pass |-> pass, slot |-> 1, item |-> 1 ]
  ELSE IF slot > Len(slots) THEN NextItem(pass + 1, 1, 1, slots, meal_groups)
  ELSE IF item > Len(meal_groups[slots[slot].name])
  THEN NextItem(pass, slot + 1, 1, slots, meal_groups)
  ELSE [ pass |-> pass, slot |-> slot, item |-> item ]

\* ------------------------------- generate_plan: sides pass (1680..1696)
SIDE_ITERATIONS == 5

\* ----------------------------- generate_plan: the response (1698..1793)
\* get_sort_index; get_sort_index_SnacksLast returns 50 + num for every
\* snack key, get_sort_index the indices of lines 1725-1743
get_sort_index_SnacksLast(key) ==
  CASE key = "breakfast" -> 0
    [] key = "lunch"     -> 20
    [] key = "dinner"    -> 40
    [] key = "snack_1"   -> 51
    [] key = "snack_2"   -> 52
    [] key = "snack_3"   -> 53
    [] key = "snack_4"   -> 54
    [] key = "snack_5"   -> 55
    [] key = "snack_6"   -> 56
    [] key = "snack_7"   -> 57
    [] OTHER             -> 99

get_sort_index(key) ==
  CASE key = "breakfast" -> 0
    [] key = "lunch"     -> 20
    [] key = "dinner"    -> 40
    [] key = "snack_1"   -> 10
    [] key = "snack_2"   -> 30
    [] key = "snack_3"   -> 43
    [] key = "snack_4"   -> 44
    [] key = "snack_5"   -> 45
    [] key = "snack_6"   -> 46
    [] key = "snack_7"   -> 47
    [] OTHER             -> 99

\* sorted(best_plan.keys(), key=get_sort_index) over the keys in slot order
RECURSIVE InsertKey(_, _)
InsertKey(sorted, key) ==
  IF sorted = << >> THEN << key >>
  ELSE IF get_sort_index(key) < get_sort_index(Head(sorted)) THEN << key >> \o sorted
  ELSE << Head(sorted) >> \o InsertKey(Tail(sorted), key)

RECURSIVE SortedKeys(_)
SortedKeys(keys) ==
  IF keys = << >> THEN << >>
  ELSE InsertKey(SortedKeys(SubSeq(keys, 1, Len(keys) - 1)), keys[Len(keys)])

\* the fallback plan of lines 1713..1716: the keys it has, in slot order, and
\* the one item under each
FallbackKeys(slots, pools) ==
  LET HasPool(slot) == pools[slot.pool] # << >>
      kept == SelectSeq(slots, HasPool)
  IN  [ i \in DOMAIN kept |-> kept[i].name ]

FallbackPlan(slots, pools) ==
  [ name \in { slots[i].name : i \in { j \in DOMAIN slots : pools[slots[j].pool] # << >> } } |->
      << pools[(CHOOSE sl \in Range(slots) : sl.name = name).pool][1] >> ]

\* lines 1752..1782: the line items of the plan, category by category
RECURSIVE FormatPlan(_, _)
FormatPlan(sorted_s_names, best_plan) ==
  IF sorted_s_names = << >> THEN << >>
  ELSE LET category == Head(sorted_s_names)
           items == best_plan[category]
       IN  [ i \in DOMAIN items |->
               [ category |-> category, id |-> items[i].id,
                 name |-> items[i].name, calories |-> items[i].calories,
                 protein |-> items[i].protein, price |-> items[i].price,
                 type |-> items[i].type ] ]
           \o FormatPlan(Tail(sorted_s_names), best_plan)

\* ------------------------------------------------------------------ state
VARIABLES
  profile_db,      \* the user's UserProfile row
  summary_db,      \* the user's DailySummary row of today
  custom_meals,    \* the user's UserCustomMeal rows
  user_recipes,    \* the user's Recipe rows
  pc,              \* where each generate_plan request stands
  request,         \* request.data of each generate_plan request
  profile,         \* request.user.profile: the instance each request loaded
  local,           \* the local variables of each generate_plan request
  response,        \* the Response each request returned
  water_pc,        \* manage_water: where the request stands
  water_profile,   \* manage_water: its profile instance
  water_summary,   \* manage_water: its DailySummary instance
  update_pc,       \* manage_profile (PATCH): where the request stands
  update_profile,  \* manage_profile: its profile instance
  calls,           \* generate_plan requests received so far
  other_calls,     \* manage_water and manage_profile requests received so far
  first_variant,   \* last_plan_variant as stored before the first request
  strategy_log,    \* strategy_name of the requests, in the order of line 1513
  write_log,       \* last_plan_variant values saved at line 1517, in order
  nutrition_log,   \* the last two responses of the Egyptian meal endpoints
  price_log,       \* the last two prices the localizing methods returned
  daily_prices,    \* the DailyPrice rows, in the order of their creation
  vendors,         \* the names of the Vendor rows
  market_prices,   \* the MarketPrice rows the price receiver matches
  submission,      \* request and response of the last receive_daily_prices
  submissions,     \* receive_daily_prices requests received so far
  summary_before,  \* the user's DailySummary row of the day before
  meal_logs,       \* the user's MealLog rows, in the order of their creation
  log_pc,          \* log_food / log_recipe: where the request stands
  log_instance,    \* MealLog.save: the instance being saved
  log_summary,     \* MealLog.save: the DailySummary instance of line 298
  log_response,    \* the status log_food / log_recipe returned last
  log_calls        \* log_food and log_recipe requests received so far

vars == << profile_db, summary_db, custom_meals, user_recipes, pc, request,
           profile, local, response, water_pc, water_profile, water_summary,
           update_pc, update_profile, calls, other_calls, first_variant,
           strategy_log, write_log, nutrition_log, price_log, daily_prices,
           vendors, market_prices, submission, submissions, summary_before,
           meal_logs, log_pc, log_instance, log_summary, log_response,
           log_calls >>

plan_vars == << pc, request, profile, local, response, calls, strategy_log,
                write_log >>

water_vars == << water_pc, water_profile, water_summary >>

update_vars == << update_pc, update_profile >>

price_vars == << daily_prices, vendors, market_prices, submission, submissions >>

log_vars == << summary_before, meal_logs, log_pc, log_instance, log_summary,
              log_response, log_calls >>

tables == << custom_meals, user_recipes, first_variant, nutrition_log,
            price_log, price_vars, log_vars >>

\* ----------------------------------------------------------- input domains
\* a DailySummary row as get_or_create makes it (models.py 315..320); money
\* in piasters
NewSummary ==
  [ water_intake_cups |-> 0, hydration_goal_met |-> FALSE,
    total_calories_consumed |-> 0, total_budget_spent |-> 0 ]

\* the value of `log_instance` while no MealLog is being saved
NoMealLog ==
  [ date |-> "", final_calories |-> 0, final_price |-> 0, price_is_float |-> FALSE ]

\* the state of `submission` before any price submission
NoSubmission ==
  [ api_key |-> "", date |-> "", source |-> "", items |-> << >>,
    status |-> 0, error |-> "", saved |-> 0 ]

RequestTargets == { 0, 2500 }

RequestBudgets == { 0, 1, 500 }

RequestMealsCounts == { Absent, Number(2), Number(4) }

\* request.data; budget_sent tells a daily_budget key that is present (and
\* may hold 0) from one that is absent
PlanRequest(target_calories, daily_budget, budget_sent, meals_count, include_custom) ==
  [ target_calories |-> target_calories, daily_budget |-> daily_budget,
    budget_sent |-> budget_sent, meals_count |-> meals_count,
    include_custom |-> include_custom ]

PlanRequests ==
  { PlanRequest(t, b, b # 0, m, c) :
      t \in RequestTargets, b \in RequestBudgets, m \in RequestMealsCounts,
      c \in BOOLEAN }

ProfileBudgets == { 0, 1000 }

StoredVariants == { 0, 3, 4, 7 }

NoLocal ==
  [ target_calories |-> 0, daily_budget |-> 0, meals_count |-> 0,
    pools |-> EmptyPools, pool_sides |-> << >>, all_candidates |-> << >>,
    slots |-> << >>, current_variant |-> 0, strategy_name |-> "",
    sorted_pools |-> { }, meal_groups |-> << >>, total_price |-> 0,
    total_cals |-> 0, total_prot |-> 0, remaining_budget |-> 0,
    cursor |-> [ pass |-> 1, slot |-> 1, item |-> 1 ] ]

NoRequest ==
  PlanRequest(0, 0, FALSE, Absent, FALSE)

NoResponse ==
  [ status |-> 0, error |-> "", has_plan |-> FALSE, plan |-> << >>,
    total_cost |-> 0, total_calories |-> 0, total_protein |-> 0,
    warning |-> FALSE, plan_variant |-> "", meals_count |-> 0 ]

InitWithProfiles(profiles, custom_tables) ==
  /\ profile_db \in profiles
  /\ summary_db = NewSummary
  /\ custom_meals \in custom_tables
  /\ user_recipes \in RecipeTables
  /\ pc = [ r \in Requests |-> "idle" ]
  /\ request = [ r \in Requests |-> NoRequest ]
  /\ profile = [ r \in Requests |-> profile_db ]
  /\ local = [ r \in Requests |-> NoLocal ]
  /\ response = [ r \in Requests |-> NoResponse ]
  /\ water_pc = "idle"
  /\ water_profile = profile_db
  /\ water_summary = summary_db
  /\ update_pc = "idle"
  /\ update_profile = profile_db
  /\ calls = 0
  /\ other_calls = 0
  /\ first_variant = profile_db.last_plan_variant
  /\ strategy_log = << >>
  /\ write_log = << >>
  /\ nutrition_log = << >>
  /\ price_log = << >>
  /\ daily_prices = << >>
  /\ vendors = { }
  /\ market_prices = << >>
  /\ submission = NoSubmission
  /\ submissions = 0
  /\ summary_before = NewSummary
  /\ meal_logs = << >>
  /\ log_pc = "idle"
  /\ log_instance = NoMealLog
  /\ log_summary = NewSummary
  /\ log_response = 0
  /\ log_calls = 0

InitWithTables(budgets, variants, custom_tables) ==
  InitWithProfiles({ NewProfile(b, v) : b \in budgets, v \in variants },
                   custom_tables)

InitWith(budgets, variants) == InitWithTables(budgets, variants, CustomMealTables)

Init == InitWith(ProfileBudgets, StoredVariants)

\* ------------------------------------------------ generate_plan, step by step
\* lines 1164..1241: the profile row is read and the targets are resolved
PlanLoad(r, data, limit) ==
  /\ pc[r] \in { "idle", "done" }
  /\ calls < limit
  /\ calls' = calls + 1
  /\ pc' = [ pc EXCEPT ![r] = "loaded" ]
  /\ request' = [ request EXCEPT ![r] = data ]
  /\ profile' = [ profile EXCEPT ![r] = profile_db ]
  /\ local' = [ local EXCEPT ![r] =
        [ NoLocal EXCEPT
            !.target_calories = ResolveTargetCalories(profile_db, data),
            !.daily_budget = ResolveDailyBudget(profile_db, data),
            !.meals_count = ResolveMealsCount(data) ] ]
  /\ response' = [ response EXCEPT ![r] = NoResponse ]
  /\ UNCHANGED << profile_db, summary_db, tables, water_vars, update_vars,
                  other_calls, strategy_log, write_log >>

\* lines 1245..1497: the pools, the sides, the recipes and the slots
PlanBuildPools(r) ==
  /\ pc[r] = "loaded"
  /\ LET gathered == BackfillPools(GatherPools(local[r].daily_budget, custom_meals))
         all_candidates == AllCandidates(gathered)
         mains == RemoveSides(gathered)
         folded == IF request[r].include_custom THEN AddRecipes(mains, user_recipes)
                   ELSE [ raised |-> FALSE, pools |-> mains ]
     IN  IF all_candidates = << >>
         THEN /\ response' = [ response EXCEPT ![r] =
                     [ NoResponse EXCEPT !.status = 404,
                                         !.error = "No meals found available." ] ]
              /\ pc' = [ pc EXCEPT ![r] = "done" ]
              /\ local' = local
         ELSE IF folded.raised
         THEN /\ response' = [ response EXCEPT ![r] =
                     [ NoResponse EXCEPT !.status = 500,
                                         !.error = "AttributeError" ] ]
              /\ pc' = [ pc EXCEPT ![r] = "done" ]
              /\ local' = local
         ELSE /\ local' = [ local EXCEPT ![r] =
                     [ @ EXCEPT !.pools = folded.pools,
                                !.pool_sides = PoolSides(all_candidates),
                                !.all_candidates = all_candidates,
                                !.slots = SlotConfig(local[r].meals_count) ] ]
              /\ pc' = [ pc EXCEPT ![r] = "pooled" ]
              /\ response' = response
  /\ UNCHANGED << profile_db, summary_db, tables, request, profile, water_vars,
                  update_vars, calls, other_calls, strategy_log, write_log >>

\* line 1512; the first definition is the line without the `+ 1`
NextVariant_NoStep(last_plan_variant) == last_plan_variant % NUM_STRATEGIES

NextVariant(last_plan_variant) == (last_plan_variant + 1) % NUM_STRATEGIES

\* lines 1504..1517: the strategy rotation and profile.save()
PlanRotate(r) ==
  /\ pc[r] = "pooled"
  /\ LET current_variant == NextVariant(profile[r].last_plan_variant)
         strategy_name == STRATEGY_NAMES[current_variant + 1]
         saved == ProfileBeforeSave(
                    [ profile[r] EXCEPT !.last_plan_variant = current_variant ])
     IN  /\ local' = [ local EXCEPT ![r] =
                 [ @ EXCEPT !.current_variant = current_variant,
                            !.strategy_name = strategy_name ] ]
         /\ profile' = [ profile EXCEPT ![r] = saved ]
         /\ profile_db' = saved
         /\ strategy_log' = Append(strategy_log, strategy_name)
         /\ write_log' = Append(write_log, [ by |-> r, value |-> current_variant ])
  /\ pc' = [ pc EXCEPT ![r] = "rotated" ]
  /\ UNCHANGED << summary_db, tables, request, response, water_vars, update_vars,
                  calls, other_calls >>

\* Python's binary * : float.__mul__ and Decimal.__rmul__ both decline the
\* other operand
MulRaisesTypeError(left, right) == left = "float" /\ right = "Decimal"

\* lines 1567..1587 and 1795..1802: the pools are sorted, then slot_targets
\* multiplies daily_budget (a float since line 1225) by Decimal(str(pct));
\* the TypeError is caught by the handler's except clause
PlanSlotTargets(r) ==
  /\ pc[r] = "rotated"
  /\ MulRaisesTypeError("float", "Decimal")
  /\ response' = [ response EXCEPT ![r] =
        [ NoResponse EXCEPT
            !.status = 500,
            !.error = "Failed to generate diet plan. Please try again or adjust your settings." ] ]
  /\ pc' = [ pc EXCEPT ![r] = "done" ]
  /\ UNCHANGED << profile_db, summary_db, tables, request, profile, local,
                  water_vars, update_vars, calls, other_calls, strategy_log,
                  write_log >>

\* ------------------------- generate_plan past slot_targets (1573..1793)
\* The passes below are the statements that follow slot_targets.  They are
\* entered with the cal_target of each slot; the budget_target of line 1586
\* is read by no later statement.
Cursor(pass, slot, item) == [ pass |-> pass, slot |-> slot, item |-> item ]

\* lines 1573..1590
PlanEnterSelection(r) ==
  /\ pc[r] = "rotated"
  /\ pc' = [ pc EXCEPT ![r] = "select" ]
  /\ local' = [ local EXCEPT ![r] =
        [ @ EXCEPT !.meal_groups =
                      [ name \in { local[r].slots[i].name : i \in DOMAIN local[r].slots }
                          |-> << >> ],
                   !.total_price = 0, !.total_cals = 0, !.total_prot = 0,
                   !.cursor = Cursor(1, 1, 1) ] ]
  /\ UNCHANGED << profile_db, summary_db, tables, request, profile, response,
                  water_vars, update_vars, calls, other_calls, strategy_log,
                  write_log >>

\* where the request goes once the upgrade pass is over (line 1682)
AfterUpgrade(l) ==
  IF l.remaining_budget > 0 /\ l.pool_sides # << >> THEN "sides" ELSE "respond"

\* one turn of the loop of line 1592, for the slot the cursor is at.  The
\* order apply_strategy_sort (1567..1570) left the slot's pool in is drawn
\* here, the first time the pool is read.
PlanSelect(r) ==
  /\ pc[r] = "select"
  /\ LET l == local[r]
         sorted_slots == SortedSlots(l.slots)
         slot == sorted_slots[l.cursor.slot]
         orders == IF slot.pool \in l.sorted_pools THEN { l.pools[slot.pool] }
                   ELSE apply_strategy_sort(l.pools[slot.pool], l.current_variant)
     IN  \E order \in orders :
           LET pools == [ l.pools EXCEPT ![slot.pool] = order ]
               s_pool == SPool(pools, l.all_candidates, slot)
               filled == FillSlot(s_pool,
                           [ group |-> l.meal_groups[slot.name], slot_cals |-> 0,
                             total_price |-> l.total_price,
                             total_cals |-> l.total_cals,
                             total_prot |-> l.total_prot ],
                           SlotCalTarget(l.target_calories, slot), l.daily_budget)
               meal_groups == [ l.meal_groups EXCEPT ![slot.name] = filled.group ]
               last == l.cursor.slot = Len(sorted_slots)
               remaining_budget == l.daily_budget - filled.total_price
               first_item == NextItem(1, 1, 1, l.slots, meal_groups)
               l2 == [ l EXCEPT !.pools = pools,
                                !.sorted_pools = @ \cup { slot.pool },
                                !.meal_groups = meal_groups,
                                !.total_price = filled.total_price,
                                !.total_cals = filled.total_cals,
                                !.total_prot = filled.total_prot ]
           IN  IF ~ last
               THEN /\ local' = [ local EXCEPT ![r] =
                          [ l2 EXCEPT !.cursor = Cursor(1, l.cursor.slot + 1, 1) ] ]
                    /\ pc' = pc
               ELSE LET l3 == [ l2 EXCEPT !.remaining_budget = remaining_budget,
                                          !.cursor = first_item ]
                    IN  /\ local' = [ local EXCEPT ![r] =
                              IF remaining_budget > 0
                                 /\ first_item.pass <= UPGRADE_ITERATIONS
                              THEN l3 ELSE [ l3 EXCEPT !.cursor = Cursor(1, 1, 1) ] ]
                        /\ pc' = [ pc EXCEPT ![r] =
                              IF remaining_budget > 0
                              THEN IF first_item.pass <= UPGRADE_ITERATIONS
                                   THEN "upgrade" ELSE AfterUpgrade(l3)
                              ELSE "respond" ]
  /\ UNCHANGED << profile_db, summary_db, tables, request, profile, response,
                  water_vars, update_vars, calls, other_calls, strategy_log,
                  write_log >>

\* lines 1645..1678 for the item the cursor is at
PlanUpgrade(r) ==
  /\ pc[r] = "upgrade"
  /\ LET l == local[r]
         slot == l.slots[l.cursor.slot]
         group == l.meal_groups[slot.name]
         i == l.cursor.item
         current_item == group[i]
         s_pool == SPool(l.pools, l.all_candidates, slot)
     IN  \E out \in UpgradeOutcomes(s_pool, current_item, group, l.remaining_budget) :
           LET price_diff == out.best_upgrade.price - current_item.price
               meal_groups ==
                 IF out.found
                 THEN [ l.meal_groups EXCEPT ![slot.name][i] = out.best_upgrade ]
                 ELSE l.meal_groups
               next == NextItem(l.cursor.pass, l.cursor.slot, i + 1, l.slots, meal_groups)
               over == next.pass > UPGRADE_ITERATIONS
               l2 == IF out.found
                     THEN [ l EXCEPT
                              !.meal_groups = meal_groups,
                              !.remaining_budget = @ - price_diff,
                              !.total_price = @ + price_diff,
                              !.total_cals = @ + (out.best_upgrade.calories
                                                   - current_item.calories),
                              !.total_prot = @ + (out.best_upgrade.protein
                                                   - current_item.protein) ]
                     ELSE l
           IN  /\ local' = [ local EXCEPT ![r] =
                     [ l2 EXCEPT !.cursor = IF over THEN Cursor(1, 1, 1) ELSE next ] ]
               /\ pc' = [ pc EXCEPT ![r] = IF over THEN AfterUpgrade(l2) ELSE "upgrade" ]
  /\ UNCHANGED << profile_db, summary_db, tables, request, profile, response,
                  water_vars, update_vars, calls, other_calls, strategy_log,
                  write_log >>

\* one turn of the loop of line 1683; cursor.pass counts the turns
PlanAddSide(r) ==
  /\ pc[r] = "sides"
  /\ LET l == local[r]
         turn == l.cursor.pass
     IN  IF l.remaining_budget <= 0
         THEN /\ pc' = [ pc EXCEPT ![r] = "respond" ]
              /\ local' = [ local EXCEPT ![r] = [ l EXCEPT !.cursor = Cursor(1, 1, 1) ] ]
         ELSE \E target_slot \in DOMAIN l.meal_groups, side \in Range(l.pool_sides) :
                LET added == ~ NameIn(side.name, l.meal_groups[target_slot])
                             /\ side.price <= l.remaining_budget
                    l2 == IF added
                          THEN [ l EXCEPT
                                   !.meal_groups[target_slot] = Append(@, side),
                                   !.remaining_budget = @ - side.price,
                                   !.total_price = @ + side.price,
                                   !.total_cals = @ + side.calories,
                                   !.total_prot = @ + side.protein ]
                          ELSE l
                IN  /\ local' = [ local EXCEPT ![r] =
                          [ l2 EXCEPT !.cursor =
                              IF turn = SIDE_ITERATIONS THEN Cursor(1, 1, 1)
                              ELSE Cursor(turn + 1, 1, 1) ] ]
                    /\ pc' = [ pc EXCEPT ![r] =
                          IF turn = SIDE_ITERATIONS THEN "respond" ELSE "sides" ]
  /\ UNCHANGED << profile_db, summary_db, tables, request, profile, response,
                  water_vars, update_vars, calls, other_calls, strategy_log,
                  write_log >>

\* lines 1698..1793: the warning, best_stats, the fallback plan, the response
PlanRespond(r) ==
  /\ pc[r] = "respond"
  /\ LET l == local[r]
         fallback == l.total_cals = 0
         best_plan == IF fallback THEN FallbackPlan(l.slots, l.pools) ELSE l.meal_groups
         keys == IF fallback THEN FallbackKeys(l.slots, l.pools)
                 ELSE [ i \in DOMAIN l.slots |-> l.slots[i].name ]
     IN  response' = [ response EXCEPT ![r] =
           [ status |-> 200, error |-> "", has_plan |-> TRUE,
             plan |-> FormatPlan(SortedKeys(keys), best_plan),
             total_cost |-> 10 * RoundHalfEven(l.total_price, 10),
             total_calories |-> l.total_cals,
             total_protein |-> TruncDiv(l.total_prot, 10),
             warning |-> 100 * l.total_cals < 95 * l.target_calories,
             plan_variant |-> l.strategy_name,
             meals_count |-> l.meals_count ] ]
  /\ pc' = [ pc EXCEPT ![r] = "done" ]
  /\ UNCHANGED << profile_db, summary_db, tables, request, profile, local,
                  water_vars, update_vars, calls, other_calls, strategy_log,
                  write_log >>

\* ------------------------------------------- manage_water (views.py 713..800)
WaterLoad ==
  /\ water_pc = "idle"
  /\ other_calls < MaxOtherCalls
  /\ other_calls' = other_calls + 1
  /\ water_pc' = "loaded"
  /\ water_profile' = profile_db
  /\ water_summary' = summary_db
  /\ UNCHANGED << profile_db, summary_db, tables, plan_vars, update_vars >>

\* the in-memory changes of lines 739..754
WaterIncrementProfile(p, s) ==
  LET cups == s.water_intake_cups + 1
      total == p.total_glasses_lifetime + 1
      goal_now == cups >= 8 /\ ~ s.hydration_goal_met
      streak == IF goal_now THEN p.current_hydration_streak + 1
                ELSE p.current_hydration_streak
      best == IF goal_now /\ streak > p.best_hydration_streak THEN streak
              ELSE p.best_hydration_streak
      new_level == (total \div 50) + 1
  IN  [ p EXCEPT !.total_glasses_lifetime = total,
                 !.current_hydration_streak = streak,
                 !.best_hydration_streak = best,
                 !.hydration_level = IF new_level > @ THEN new_level ELSE @ ]

WaterIncrementSummary(s) ==
  LET cups == s.water_intake_cups + 1
  IN  [ s EXCEPT !.water_intake_cups = cups,
                 !.hydration_goal_met = s.hydration_goal_met \/ cups >= 8 ]

\* action = 'increment': profile.save() and summary.save() (787..788);
\* any other action: 400 and nothing is saved
WaterFinish(action) ==
  /\ water_pc = "loaded"
  /\ water_pc' = "idle"
  /\ IF action = "increment"
     THEN /\ profile_db' = ProfileBeforeSave(
                              WaterIncrementProfile(water_profile, water_summary))
          /\ summary_db' = WaterIncrementSummary(water_summary)
     ELSE UNCHANGED << profile_db, summary_db >>
  /\ UNCHANGED << water_profile, water_summary, tables, plan_vars, update_vars,
                  other_calls >>

\* --------------------------------- manage_profile PATCH (views.py 926..975)
ProfilePatches == { "weight", "current_location" }

UpdateLoad ==
  /\ update_pc = "idle"
  /\ other_calls < MaxOtherCalls
  /\ other_calls' = other_calls + 1
  /\ update_pc' = "loaded"
  /\ update_profile' = profile_db
  /\ UNCHANGED << profile_db, summary_db, tables, plan_vars, water_vars >>

\* serializer.save(): the patched field is set on the instance, which is saved
UpdateSaveWith(field, value) ==
  /\ update_pc = "loaded"
  /\ update_pc' = "idle"
  /\ profile_db' = ProfileBeforeSave([ update_profile EXCEPT ![field] = value ])
  /\ UNCHANGED << update_profile, summary_db, tables, plan_vars, water_vars,
                  other_calls >>

UpdateSave(field) ==
  UpdateSaveWith(field, IF field = "weight" THEN 80 ELSE "Sohag")

\* ------------------------- Egyptian meal endpoints (views.py 2160..2237)
\* the record a response carries when it carries no nutrition
NoNutrition ==
  [ calories |-> 0, protein |-> 0, carbs |-> 0, fat |-> 0, fiber |-> 0,
    price |-> 0 ]

MealsWithId(meal_id) == { i \in DOMAIN EngineMeals : EngineMeals[i].meal_id = meal_id }

\* calculate_meal_nutrition (2206..2237): 400 without weight_g, 404 for an
\* unknown meal, an uncaught ValueError of int() (HTTP 500) for other text
calculate_meal_nutrition(meal_id, weight_g) ==
  IF weight_g = Absent
  THEN [ status |-> 400, error |-> "weight_g query parameter is required",
         nutrition |-> NoNutrition ]
  ELSE IF MealsWithId(meal_id) = { }
  THEN [ status |-> 404, error |-> "Meal not found", nutrition |-> NoNutrition ]
  ELSE IF weight_g = NotANumber
  THEN [ status |-> 500, error |-> "ValueError", nutrition |-> NoNutrition ]
  ELSE LET meal == EngineMeals[CHOOSE i \in MealsWithId(meal_id) : TRUE]
       IN  [ status |-> 200, error |-> "",
             nutrition |-> calculate_nutrition(meal, weight_g) ]

\* list_egyptian_meals (2160..2174) with EgyptianMealListSerializer
\* (serializers.py 43..55): calculate_nutrition() and get_price() of every meal
list_egyptian_meals ==
  [ status |-> 200, error |-> "",
    meals |-> [ i \in DOMAIN EngineMeals |->
                  [ meal_id |-> EngineMeals[i].meal_id,
                    nutrition |-> calculate_nutrition(EngineMeals[i], Absent),
                    price |-> get_price(EngineMeals[i], Absent) ] ] ]

\* the last two entries of a log
LastTwo(log) == IF Len(log) <= 2 THEN log ELSE SubSeq(log, Len(log) - 1, Len(log))

EngineMealIds == { EngineMeals[i].meal_id : i \in DOMAIN EngineMeals } \cup { "no_such_meal" }

EngineWeights ==
  { Absent, NotANumber }
    \cup { Number(n) : n \in { -100, 0, 1, 2, 50, 100, 125, 200, 250, 333, 400, 500 } }

CalculateMealNutrition(meal_id, weight_g) ==
  /\ nutrition_log' =
       LastTwo(Append(nutrition_log,
         [ view |-> "calculate_meal_nutrition", meal_id |-> meal_id,
           weight_g |-> weight_g,
           response |-> calculate_meal_nutrition(meal_id, weight_g) ]))
  /\ UNCHANGED << profile_db, summary_db, custom_meals, user_recipes,
                  first_variant, price_log, price_vars, log_vars,
                  plan_vars, water_vars, update_vars, other_calls >>

ListEgyptianMeals ==
  /\ nutrition_log' =
       LastTwo(Append(nutrition_log,
         [ view |-> "list_egyptian_meals", meal_id |-> "", weight_g |-> Absent,
           response |-> list_egyptian_meals ]))
  /\ UNCHANGED << profile_db, summary_db, custom_meals, user_recipes,
                  first_variant, price_log, price_vars, log_vars,
                  plan_vars, water_vars, update_vars, other_calls >>

\* ------------------------------------------------ the localizing methods
LocationCategories ==
  { "metro", "major_city", "regional", "provincial", "rural", "", "village" }

BasePrices == { -100, 0, 1, 250, 1999 }

Localized(method, base_price, location_category, price) ==
  /\ price_log' =
       LastTwo(Append(price_log,
         [ method |-> method, base_price |-> base_price,
           location_category |-> location_category, price |-> price ]))
  /\ UNCHANGED << profile_db, summary_db, custom_meals, user_recipes,
                  first_variant, nutrition_log, price_vars, log_vars,
                  plan_vars, water_vars, update_vars, other_calls >>

\* UserProfile.get_location_multiplier: the multiplier is the localized price
\* of a base price of 1.00
GetLocationMultiplier(location_category) ==
  Localized("UserProfile.get_location_multiplier", 100, location_category,
            100 * get_multiplier_for_category(location_category))

AbstractMealPriceForLocation(base_price, location_category) ==
  Localized("AbstractMeal.get_price_for_location", base_price, location_category,
            AbstractMeal_get_price_for_location(base_price, location_category))

IngredientPriceForLocation(base_price, location_category) ==
  Localized("Ingredient.get_price_for_location", base_price, location_category,
            Ingredient_get_price_for_location(base_price, location_category))

MealLogFallbackPrice(base_price, location_category) ==
  Localized("MealLog.save", base_price, location_category,
            MealLog_fallback_price(base_price, location_category))

\* ------------------- receive_daily_prices (views.py 2242..2303, serializers)
EXPECTED_KEY == "COINCAL_PRICE_ANCHOR_2026"

\* DailyPriceCreateSerializer.validate_items (80..91): the error of the first
\* item that fails, "" when every item passes; price_egp is Absent for a
\* missing price, NotANumber for text float() rejects, Number(n) in piasters
RECURSIVE validate_items(_)
validate_items(value) ==
  IF value = << >> THEN ""
  ELSE LET price == Head(value).price_egp
       IN  IF price = Absent THEN "is missing price_egp"
           ELSE IF price = NotANumber THEN "Invalid price format"
           ELSE IF price.n <= 0 THEN "must be positive"
           ELSE validate_items(Tail(value))

\* the rows update_or_create (100..110) looks up; DailyPriceMatches_None
\* finds none, so that every item is inserted
DailyPriceMatches_None(rows, item_id, source, date) == { }

DailyPriceMatches(rows, item_id, source, date) ==
  { i \in DOMAIN rows : /\ rows[i].item_id = item_id
                         /\ rows[i].store_name = source
                         /\ rows[i].date = date }

\* DailyPriceCreateSerializer.create (93..113): the rows after the loop and
\* the instances it returned; more than one matching row raises
\* MultipleObjectsReturned with the earlier items stored
RECURSIVE create(_, _, _, _, _)
create(rows, created_prices, items, source, date) ==
  IF items = << >>
  THEN [ rows |-> rows, created_prices |-> created_prices, raised |-> FALSE ]
  ELSE LET item == Head(items)
           found == DailyPriceMatches(rows, item.item_id, source, date)
           price == [ item_id |-> item.item_id, store_name |-> source,
                      date |-> date, item_name |-> item.item_name,
                      price_egp |-> item.price_egp.n ]
       IN  IF Cardinality(found) > 1
           THEN [ rows |-> rows, created_prices |-> created_prices, raised |-> TRUE ]
           ELSE IF found = { }
           THEN create(Append(rows, price), Append(created_prices, price),
                       Tail(items), source, date)
           ELSE create([ rows EXCEPT ![CHOOSE i \in found : TRUE] = price ],
                       Append(created_prices, price), Tail(items), source, date)

\* lines 2279..2283: the BaseMeal a scraped item name is matched to, 0 for
\* none; 'Rice' is contained in 'white rice', no meal matches 'Sugar (1kg)'
MatchedMeal(item_name) ==
  CASE item_name = "Rice" -> 3
    [] OTHER              -> 0

MarketPriceMatches(rows, meal, vendor) ==
  { i \in DOMAIN rows : rows[i].meal_id = meal /\ rows[i].vendor = vendor }

\* lines 2286..2294: get_or_create, then the price is set and the row flagged
FlagForReview(rows, meal, vendor, price_egp) ==
  LET found == MarketPriceMatches(rows, meal, vendor)
  IN  IF found = { }
      THEN Append(rows, [ meal_id |-> meal, vendor |-> vendor,
                          price_egp |-> price_egp, is_price_verified |-> FALSE ])
      ELSE [ rows EXCEPT ![CHOOSE i \in found : TRUE] =
               [ @ EXCEPT !.price_egp = price_egp, !.is_price_verified = FALSE ] ]

RECURSIVE ReviewQueue(_, _, _)
ReviewQueue(rows, prices, vendor) ==
  IF prices = << >> THEN rows
  ELSE LET dp == Head(prices)
           meal == MatchedMeal(dp.item_name)
       IN  ReviewQueue(IF meal = 0 THEN rows
                       ELSE FlagForReview(rows, meal, vendor, dp.price_egp),
                       Tail(prices), vendor)

\* line 2262; CheckApiKey_Open lets every request through
CheckApiKey_Open(api_key) == TRUE

CheckApiKey(api_key) == api_key = EXPECTED_KEY

\* line 2269; ItemsValid_Unchecked accepts every list of items
ItemsValid_Unchecked(items) ==
  \A i \in DOMAIN items : items[i].price_egp.tag = "int"

ItemsValid(items) == validate_items(items) = ""

\* receive_daily_prices, the whole handler
ReceiveDailyPrices(data) ==
  /\ submissions < MaxSubmissions
  /\ submissions' = submissions + 1
  /\ IF ~ CheckApiKey(data.api_key)
     THEN /\ submission' = [ data EXCEPT !.status = 401,
                                          !.error = "Invalid or missing API key" ]
          /\ UNCHANGED << daily_prices, vendors, market_prices >>
     ELSE IF ~ ItemsValid(data.items)
     THEN /\ submission' = [ data EXCEPT !.status = 400,
                                          !.error = "items" ]
          /\ UNCHANGED << daily_prices, vendors, market_prices >>
     ELSE LET saved == create(daily_prices, << >>, data.items, data.source, data.date)
          IN  IF saved.raised
              THEN /\ submission' = [ data EXCEPT !.status = 500,
                                                   !.error = "MultipleObjectsReturned" ]
                   /\ daily_prices' = saved.rows
                   /\ UNCHANGED << vendors, market_prices >>
              ELSE /\ submission' = [ data EXCEPT !.status = 201,
                                                   !.saved = Len(saved.created_prices) ]
                   /\ daily_prices' = saved.rows
                   /\ vendors' = vendors \cup { data.source }
                   /\ market_prices' =
                        ReviewQueue(market_prices, saved.created_prices, data.source)
  /\ UNCHANGED << profile_db, summary_db, custom_meals, user_recipes,
                  first_variant, nutrition_log, price_log, log_vars, plan_vars,
                  water_vars, update_vars, other_calls >>

\* ------------- log_food, log_recipe (views.py 834..922, 1086..1124), MealLog
\* BaseMeal rows that have no MarketPrice: base_price in piasters
UnpricedBaseMeals ==
  << [ meal_id |-> 7, name |-> "plain yogurt", calories |-> 100,
       base_price |-> 1000 ] >>

\* lines 880..913: the meal a request names, as the source MealLog.save reads:
\* calories in tenths of kcal, base_price (lines 244..266) in hundredths of a
\* piaster; found is FALSE where the lookup raises DoesNotExist
LoggedMeal(data, customs, location_category) ==
  LET NotFound == [ found |-> FALSE, base_cals |-> 0, base_price |-> 0 ]
      id == data.meal_id.n
  IN  CASE data.kind = "custom" ->
             LET at == { i \in DOMAIN customs : customs[i].id = id }
             IN  IF at = { } THEN NotFound
                 ELSE [ found |-> TRUE,
                        base_cals |-> 10 * customs[CHOOSE i \in at : TRUE].calories,
                        base_price |-> MealLog_fallback_price(0, location_category) ]
        [] data.kind = "egyptian" ->
             LET at == { i \in DOMAIN EgyptianMeals : EgyptianMeals[i].id = id }
             IN  IF at = { } THEN NotFound
                 ELSE LET em == EgyptianMeals[CHOOSE i \in at : TRUE]
                      IN  [ found |-> TRUE,
                            base_cals |-> calculate_nutrition(em, Absent).calories,
                            base_price |-> MealLog_fallback_price(
                                             get_price(em, Absent), location_category) ]
        [] OTHER ->
             LET priced == { i \in DOMAIN MarketPrices : MarketPrices[i].meal_id = id }
                 unpriced == { i \in DOMAIN UnpricedBaseMeals :
                                 UnpricedBaseMeals[i].meal_id = id }
             IN  IF id \in DOMAIN MarketPrices
                 THEN [ found |-> TRUE,
                        base_cals |-> 10 * MarketPrices[id].calories,
                        base_price |-> 100 * MarketPrices[id].price_egp ]
                 ELSE IF priced # { }
                 THEN LET mp == MarketPrices[CHOOSE i \in priced : TRUE]
                      IN  [ found |-> TRUE, base_cals |-> 10 * mp.calories,
                            base_price |-> 100 * mp.price_egp ]
                 ELSE IF unpriced # { }
                 THEN LET bm == UnpricedBaseMeals[CHOOSE i \in unpriced : TRUE]
                      IN  [ found |-> TRUE, base_cals |-> 10 * bm.calories,
                            base_price |-> MealLog_fallback_price(
                                             bm.base_price, location_category) ]
                 ELSE NotFound

\* prep_mods (269..274), in hundredths
PrepModifier(prep_style) ==
  CASE prep_style = "LIGHT" -> 85
    [] prep_style = "HEAVY" -> 130
    [] OTHER                -> 100

\* lines 277..278: int() truncates, quantize rounds to the piaster; quantity
\* in hundredths
FinalCalories(base_cals, prep_style, quantity) ==
  TruncDiv(base_cals * PrepModifier(prep_style) * quantity, 100000)

FinalPrice(base_price, quantity) == RoundHalfEven(base_price * quantity, 10000)

\* RecipeSerializer.get_metrics (serializers.py 139..154) of a recipe without
\* items: cost_per_plate is the float 0.0 when servings > 0 and the int 0
\* otherwise; with items the read of price_per_unit raises AttributeError
RecipeMetrics(recipe) ==
  [ raises |-> recipe.items # << >>,
    cals_per_plate |-> 0, cost_per_plate |-> 0,
    cost_is_float |-> recipe.servings > 0 ]

\* lines 299..300; UpdateDailySummary_CaloriesOnly leaves the money as it was
UpdateDailySummary_CaloriesOnly(summary, log) ==
  [ summary EXCEPT !.total_calories_consumed = @ + log.final_calories ]

UpdateDailySummary(summary, log) ==
  [ summary EXCEPT !.total_calories_consumed = @ + log.final_calories,
                   !.total_budget_spent = @ + log.final_price ]

SummaryOf(day) == IF day = "today" THEN summary_db ELSE summary_before

\* MealLog.objects.create up to line 298: the row is inserted and the
\* DailySummary of its date is read
InsertMealLog(log) ==
  /\ meal_logs' = Append(meal_logs, [ date |-> log.date,
                                      final_calories |-> log.final_calories,
                                      final_price |-> log.final_price ])
  /\ log_instance' = log
  /\ log_summary' = SummaryOf(log.date)
  /\ log_pc' = "inserted"
  /\ UNCHANGED log_response

LogAnswered(status) ==
  /\ log_response' = status
  /\ UNCHANGED << meal_logs, log_pc, log_instance, log_summary >>

\* log_food up to line 298 of MealLog.save
LogFoodBegin(data) ==
  /\ log_pc = "idle"
  /\ log_calls < MaxLogCalls
  /\ log_calls' = log_calls + 1
  /\ IF data.meal_id.tag # "int" THEN LogAnswered(400)
     ELSE LET meal == LoggedMeal(data, custom_meals, profile_db.location_category)
          IN  IF ~ meal.found THEN LogAnswered(404)
              ELSE InsertMealLog(
                     [ date |-> data.date,
                       final_calories |-> FinalCalories(meal.base_cals, data.prep_style,
                                                        data.quantity),
                       final_price |-> FinalPrice(meal.base_price, data.quantity),
                       price_is_float |-> FALSE ])
  /\ UNCHANGED << profile_db, summary_db, summary_before, custom_meals,
                  user_recipes, first_variant, nutrition_log, price_log,
                  price_vars, plan_vars, water_vars, update_vars, other_calls >>

\* log_recipe up to line 298 of MealLog.save
LogRecipeBegin(recipe_id) ==
  /\ log_pc = "idle"
  /\ log_calls < MaxLogCalls
  /\ log_calls' = log_calls + 1
  /\ LET at == { i \in DOMAIN user_recipes : user_recipes[i].id = recipe_id }
     IN  IF at = { } THEN LogAnswered(404)
         ELSE LET metrics == RecipeMetrics(user_recipes[CHOOSE i \in at : TRUE])
              IN  IF metrics.raises THEN LogAnswered(500)
                  ELSE InsertMealLog(
                         [ date |-> "today",
                           final_calories |-> metrics.cals_per_plate,
                           final_price |-> metrics.cost_per_plate,
                           price_is_float |-> metrics.cost_is_float ])
  /\ UNCHANGED << profile_db, summary_db, summary_before, custom_meals,
                  user_recipes, first_variant, nutrition_log, price_log,
                  price_vars, plan_vars, water_vars, update_vars, other_calls >>

\* lines 299..301 and the response: `float - Decimal` of line 300 raises
\* TypeError (HTTP 500, the summary is not saved); otherwise summary.save()
\* writes every field of the instance read at line 298
LogFinish ==
  /\ log_pc = "inserted"
  /\ log_pc' = "idle"
  /\ IF log_instance.price_is_float
     THEN /\ log_response' = 500
          /\ UNCHANGED << summary_db, summary_before >>
     ELSE /\ log_response' = 201
          /\ IF log_instance.date = "today"
             THEN /\ summary_db' = UpdateDailySummary(log_summary, log_instance)
                  /\ UNCHANGED summary_before
             ELSE /\ summary_before' = UpdateDailySummary(log_summary, log_instance)
                  /\ UNCHANGED summary_db
  /\ UNCHANGED << profile_db, custom_meals, user_recipes, first_variant,
                  nutrition_log, price_log, price_vars, meal_logs, log_instance,
                  log_summary, log_calls, plan_vars, water_vars, update_vars,
                  other_calls >>

\* get_dashboard through _get_daily_metrics (26..40): get_or_create and reads
DashboardRead ==
  /\ log_calls < MaxLogCalls
  /\ log_calls' = log_calls + 1
  /\ log_response' = 200
  /\ UNCHANGED << profile_db, summary_db, summary_before, custom_meals,
                  user_recipes, first_variant, nutrition_log, price_log,
                  price_vars, meal_logs, log_pc, log_instance, log_summary,
                  plan_vars, water_vars, update_vars, other_calls >>

\* ------------------------------------------------------------ specifications
\* generate_plan, one request after the other and no other request of the user
Next ==
  \/ \E data \in PlanRequests : PlanLoad(1, data, MaxCalls)
  \/ PlanBuildPools(1)
  \/ PlanRotate(1)
  \/ PlanSlotTargets(1)

Spec == Init /\ [][Next]_vars

\* the three handlers, their requests interleaved at their reads and writes
\* of the database
ConcurrentPlanRequests ==
  { PlanRequest(0, 500, TRUE, Absent, FALSE),
    PlanRequest(0, 1, TRUE, Number(2), FALSE) }

InitConcurrent ==
  /\ InitWith({ 0 }, StoredVariants)
  /\ custom_meals = << >>
  /\ user_recipes = << >>

NextConcurrent ==
  \/ \E r \in Requests, data \in ConcurrentPlanRequests :
        PlanLoad(r, data, MaxConcurrentCalls)
  \/ \E r \in Requests : PlanBuildPools(r)
  \/ \E r \in Requests : PlanRotate(r)
  \/ \E r \in Requests : PlanSlotTargets(r)
  \/ WaterLoad
  \/ \E action \in { "increment", "decrement" } : WaterFinish(action)
  \/ UpdateLoad
  \/ \E field \in ProfilePatches : UpdateSave(field)

SpecConcurrent == InitConcurrent /\ [][NextConcurrent]_vars

\* one request carried through the passes that follow slot_targets (lines
\* 1592..1793), as they run when the product of line 1586 evaluates; Spec
\* and SpecConcurrent are the handler as it stands, where it does not
OptimizerRequests ==
  { PlanRequest(0, b, b # 0, m, c) :
      b \in { 0, 500, 1000 },
      m \in { Number(1), Number(2), Absent, Number(4), Number(6) },
      c \in BOOLEAN }

InitOptimizer ==
  InitWithTables({ 0 }, { 0, 3 }, CustomMealTables \cup { GranolaTable })

NextOptimizer ==
  \/ \E data \in OptimizerRequests : PlanLoad(1, data, 1)
  \/ PlanBuildPools(1)
  \/ PlanRotate(1)
  \/ PlanEnterSelection(1)
  \/ PlanSelect(1)
  \/ PlanUpgrade(1)
  \/ PlanAddSide(1)
  \/ PlanRespond(1)

SpecOptimizer == InitOptimizer /\ [][NextOptimizer]_vars

\* the boundary of generate_plan (lines 1164..1497) over meal counts and
\* budgets in and out of range, one request
BoundaryMealsCounts ==
  { Absent, NotANumber, Number(-1), Number(0), Number(1), Number(3), Number(5),
    Number(10), Number(11) }

BoundaryBudgets ==
  { << FALSE, 0 >>, << TRUE, 0 >>, << TRUE, -500 >>, << TRUE, 1 >>, << TRUE, 500 >> }

BoundaryRequests ==
  { PlanRequest(0, b[2], b[1], m, c) :
      b \in BoundaryBudgets, m \in BoundaryMealsCounts, c \in BOOLEAN }

InitBoundary == InitWith({ -100, 0, 1000 }, { 0 })

NextBoundary ==
  \/ \E data \in BoundaryRequests : PlanLoad(1, data, 1)
  \/ PlanBuildPools(1)

SpecBoundary == InitBoundary /\ [][NextBoundary]_vars

\* the slot configuration of generate_plan over every meal count
SlotMealsCounts ==
  { Number(n) : n \in 0..11 } \cup { Absent }

SlotRequests ==
  { PlanRequest(0, b, TRUE, m, FALSE) : b \in { 1000, 5000 }, m \in SlotMealsCounts }

InitSlots == InitWith({ 0 }, { 0 })

NextSlots ==
  \/ \E data \in SlotRequests : PlanLoad(1, data, 1)
  \/ PlanBuildPools(1)

SpecSlots == InitSlots /\ [][NextSlots]_vars

\* the composition engine behind the Egyptian meal endpoints
InitEngine == InitWithTables({ 0 }, { 0 }, { << >> }) /\ user_recipes = << >>

NextEngine ==
  \/ \E meal_id \in EngineMealIds, weight_g \in EngineWeights :
       CalculateMealNutrition(meal_id, weight_g)
  \/ ListEgyptianMeals

SpecEngine == InitEngine /\ [][NextEngine]_vars

\* the four implementations of the location multipliers
InitLocation == InitWithTables({ 0 }, { 0 }, { << >> }) /\ user_recipes = << >>

NextLocation ==
  \/ \E c \in LocationCategories : GetLocationMultiplier(c)
  \/ \E b \in BasePrices, c \in LocationCategories : AbstractMealPriceForLocation(b, c)
  \/ \E b \in BasePrices, c \in LocationCategories : IngredientPriceForLocation(b, c)
  \/ \E b \in BasePrices, c \in LocationCategories : MealLogFallbackPrice(b, c)

SpecLocation == InitLocation /\ [][NextLocation]_vars

\* the price receiver: payloads of up to two items
SubmittedItem(item_id, item_name, price_egp) ==
  [ item_id |-> item_id, item_name |-> item_name, price_egp |-> price_egp ]

SubmittedItems ==
  { SubmittedItem("rice_1kg", "Rice", p) :
      p \in { Absent, NotANumber, Number(-1000), Number(0), Number(4550),
              Number(2700) } }
    \cup { SubmittedItem("sugar_1kg", "Sugar (1kg)", p) :
             p \in { Absent, Number(-1000), Number(2700) } }

SubmittedLists ==
  { << >> } \cup { << a >> : a \in SubmittedItems }
    \cup { << a, b >> : a \in SubmittedItems, b \in SubmittedItems }

Submission(api_key, date, items) ==
  [ api_key |-> api_key, date |-> date, source |-> "carrefour_egypt",
    items |-> items, status |-> 0, error |-> "", saved |-> 0 ]

Submissions ==
  { Submission(EXPECTED_KEY, d, l) :
      d \in { "2026-02-01", "2026-02-02" }, l \in SubmittedLists }
    \cup { Submission(k, "2026-02-01", l) :
             k \in { "WRONG_KEY", "" }, l \in SubmittedLists }

InitPrices ==
  /\ InitWithTables({ 0 }, { 0 }, { << >> })
  /\ user_recipes = << >>

NextPrices == \E data \in Submissions : ReceiveDailyPrices(data)

SpecPrices == InitPrices /\ [][NextPrices]_vars

\* meal logging, one request at a time
LogRequest(kind, meal_id, quantity, prep_style, day) ==
  [ kind |-> kind, meal_id |-> meal_id, quantity |-> quantity,
    prep_style |-> prep_style, date |-> day ]

LogRequests ==
  { LogRequest(k, m, q, p, d) :
      k \in { "market", "custom", "egyptian" },
      m \in { NotANumber, Number(1), Number(6), Number(7), Number(9) },
      q \in { 100, 150, 33 },
      p \in { "STANDARD", "LIGHT" },
      d \in { "today", "yesterday" } }

RecipeIds == { 1, 7 }

InitLogging ==
  InitWithTables({ 0 }, { 0 }, CustomMealTables)

NextLogging ==
  \/ \E data \in LogRequests : LogFoodBegin(data)
  \/ \E recipe_id \in RecipeIds : LogRecipeBegin(recipe_id)
  \/ LogFinish

SpecLogging == InitLogging /\ [][NextLogging]_vars

\* one user's requests running at the same time: water, logging, dashboard
WaterActions == { "increment", "decrement", "" }

InitWater ==
  InitWithTables({ 0 }, { 0 }, { << >> }) /\ user_recipes = << >>

WaterLogRequests ==
  { data \in LogRequests :
      /\ data.kind \in { "market", "egyptian" }
      /\ data.meal_id \in { Number(1), Number(9) }
      /\ data.prep_style = "STANDARD" }

NextWater ==
  \/ WaterLoad
  \/ \E action \in WaterActions : WaterFinish(action)
  \/ \E data \in WaterLogRequests : LogFoodBegin(data)
  \/ LogFinish
  \/ DashboardRead

SpecWater == InitWater /\ [][NextWater]_vars

\* profiles registered with a location as the client sent it (views.py 129,
\* 159), then patched or saved by another request
RegisteredLocations ==
  { "Cairo", "Sohag", " SOHAG ", "alexandria ", "Tanta", "Atlantis", "  " }

\* PATCH bodies of one field; the serializer trims text and refuses "" and a
\* location_category outside LOCATION_CHOICES
LocationPatches ==
  ({ "current_location" } \X
     { "Cairo", "cairo", "Sohag", "Alexandria", "Atlantis", "Tanta" })
    \cup ({ "location_category" } \X { "rural", "regional" })
    \cup ({ "weight" } \X { 60, 80, 90 })
    \cup ({ "daily_budget_limit" } \X { 5000, 10000 })

InitProfile ==
  /\ InitWithProfiles(
       { ProfileBeforeSave([ NewProfile(0, 0) EXCEPT !.current_location = city ]) :
           city \in RegisteredLocations },
       { << >> })
  /\ user_recipes = << >>

NextProfile ==
  \/ UpdateLoad
  \/ \E patch \in LocationPatches : UpdateSaveWith(patch[1], patch[2])
  \/ WaterLoad
  \/ \E action \in WaterActions : WaterFinish(action)

SpecProfile == InitProfile /\ [][NextProfile]_vars

\* ------------------------------------------------------------- properties
Built(r) == pc[r] \in { "pooled", "rotated", "select", "upgrade", "sides", "respond" }

PlanPrice(plan) == SumSeq([ i \in DOMAIN plan |-> plan[i].price ])

SameCandidate(a, b) == a.id = b.id /\ a.type = b.type

PlanCandidates(plan) == { << plan[i].type, plan[i].id >> : i \in DOMAIN plan }

AllPooled(l) ==
  Range(l.pools.breakfast) \cup Range(l.pools.lunch) \cup Range(l.pools.dinner)
    \cup Range(l.pools.snack) \cup Range(l.pool_sides)

C6_PoolsWithinBudget ==
  \A r \in Requests :
    Built(r) => \A c \in AllPooled(local[r]) : c.price <= local[r].daily_budget

C6_FilteredPoolsOfAllSources ==
  /\ pc[1] = "pooled"
  /\ \E row \in Range(MarketPrices) : row.price_egp > local[1].daily_budget
  /\ \E c \in AllPooled(local[1]) : c.type = "global" /\ c.price > 0
  /\ \E c \in AllPooled(local[1]) : c.type = "egyptian" /\ c.price > 0
  /\ \E c \in AllPooled(local[1]) : c.type = "custom" /\ c.id < RecipeIdOffset
  /\ \E c \in AllPooled(local[1]) : c.type = "custom" /\ c.id > RecipeIdOffset

\* C7 as stated: once the slots are configured (after the sides have left the
\* main pools), the pool of every slot is non-empty.
C7_SlotPoolsNonEmpty ==
  \A r \in Requests :
    Built(r) =>
      \A i \in DOMAIN local[r].slots : local[r].pools[local[r].slots[i].pool] # << >>

\* C7 as amended: the list a slot is filled from is non-empty; it is the pool
\* of the slot, or all_candidates when that pool is empty.
C7_SelectionListNonEmpty ==
  \A r \in Requests :
    Built(r) =>
      \A i \in DOMAIN local[r].slots :
        SPool(local[r].pools, local[r].all_candidates, local[r].slots[i]) # << >>

C7_EmptySlotPool ==
  /\ Built(1)
  /\ \E i \in DOMAIN local[1].slots : local[1].pools[local[1].slots[i].pool] = << >>
  /\ local[1].all_candidates # << >>

\* C8: the save of a plan request changes no column of the profile row other
\* than last_plan_variant.
C8_OnlyRotationIndexWritten ==
  [][ \A r \in Requests :
        PlanRotate(r) =>
          \A f \in ProfileFields \ { "last_plan_variant" } :
            profile_db'[f] = profile_db[f] ]_vars

\* C9: after two plan requests that both saved, and no other request, the
\* stored index is the one saved last, lies in 0..4 and is one or two steps
\* past the first index, and both responses carry a strategy name.
StrategyNameSet == Range(STRATEGY_NAMES)

BothSaved ==
  /\ calls = 2 /\ other_calls = 0 /\ Len(write_log) = 2
  /\ \A r \in { 1, 2 } : pc[r] = "done"

C9_LastWriteWins ==
  BothSaved =>
    /\ profile_db.last_plan_variant = write_log[2].value
    /\ profile_db.last_plan_variant \in 0..(NUM_STRATEGIES - 1)
    /\ profile_db.last_plan_variant \in
         { (first_variant + 1) % NUM_STRATEGIES, (first_variant + 2) % NUM_STRATEGIES }
    /\ \A r \in { 1, 2 } : response[r].plan_variant \in StrategyNameSet

\* the part of C9 that is about the stored index
C9_StoredIndex ==
  BothSaved =>
    /\ profile_db.last_plan_variant = write_log[2].value
    /\ profile_db.last_plan_variant \in 0..(NUM_STRATEGIES - 1)
    /\ profile_db.last_plan_variant \in
         { (first_variant + 1) % NUM_STRATEGIES, (first_variant + 2) % NUM_STRATEGIES }
    /\ \A r \in { 1, 2 } : local[r].strategy_name \in StrategyNameSet

BudgetFromRequest(r) ==
  profile[r].daily_budget_limit <= 0 /\ request[r].budget_sent

C11_InputsClamped ==
  \A r \in Requests :
    pc[r] # "idle" =>
      /\ local[r].meals_count \in MIN_MEALS..MAX_MEALS
      /\ request[r].meals_count.tag = "text" => local[r].meals_count = DEFAULT_MEALS
      /\ (BudgetFromRequest(r) /\ request[r].daily_budget <= 0) =>
           local[r].daily_budget = MIN_DAILY_BUDGET
      /\ Built(r) => Len(local[r].slots) = local[r].meals_count
      /\ response[r].status \notin 400..499 \ { 404 }

\* the parts of C11 other than the budget of zero
C11_ClampedExceptZeroBudget ==
  \A r \in Requests :
    pc[r] # "idle" =>
      /\ local[r].meals_count \in MIN_MEALS..MAX_MEALS
      /\ request[r].meals_count.tag = "text" => local[r].meals_count = DEFAULT_MEALS
      /\ (BudgetFromRequest(r) /\ request[r].daily_budget < 0) =>
           local[r].daily_budget = MIN_DAILY_BUDGET
      /\ Built(r) => Len(local[r].slots) = local[r].meals_count
      /\ response[r].status \notin 400..499 \ { 404 }

\* C12: no step of the upgrade pass or of the sides pass leaves the selection
\* with total calories further from the target than it was before the step.
Abs(n) == IF n >= 0 THEN n ELSE -n

Deviation(l) == Abs(l.total_cals - l.target_calories)

ReferencePrice(c) ==
  IF c.type = "global"
  THEN LET row == CHOOSE row \in Range(MarketPrices) : row.meal_id = c.id
       IN  row.price_egp
  ELSE LET meal == CHOOSE meal \in Range(EgyptianMeals) : meal.id = c.id
       IN  get_price(meal, Absent)

C13_PoolPricesLocalized ==
  \A r \in Requests :
    Built(r) =>
      \A c \in AllPooled(local[r]) :
        c.type \in { "global", "egyptian" } =>
          100 * c.price = ReferencePrice(c) * get_location_multiplier(profile[r])

\* C14 as stated: every candidate below the calorie threshold is among the
\* sides, whatever its name.
LowCalorie(c) == c.calories < SIDE_CALORIE_LIMIT

MainPooled(l) ==
  Range(l.pools.breakfast) \cup Range(l.pools.lunch) \cup Range(l.pools.dinner)

NamedAsMain(c) == Contains(c.name, "sandwich") \/ Contains(c.name, "hawawshi")

MealClass(category) ==
  CASE category = "breakfast" -> 0
    [] category = "lunch"     -> 1
    [] category = "dinner"    -> 2
    [] OTHER                  -> 3

DayOrder ==
  << "breakfast", "snack_1", "lunch", "snack_2", "dinner", "snack_3",
     "snack_4", "snack_5", "snack_6", "snack_7" >>

DayRank(category) == CHOOSE k \in DOMAIN DayOrder : DayOrder[k] = category

MealOf(meal_id) == EngineMeals[CHOOSE i \in MealsWithId(meal_id) : TRUE]

Calculated(e) == e.view = "calculate_meal_nutrition" /\ e.response.status = 200

\* the percentage a meal's recipe gives an ingredient (one line per
\* ingredient: unique_together of MealRecipe), 0 without a line
LinePercentage(meal, ingredient) ==
  SumSeq([ i \in DOMAIN meal.recipe_items |->
             IF meal.recipe_items[i].ingredient = ingredient
             THEN meal.recipe_items[i].percentage ELSE 0 ])

IngredientNames == << "rice", "lentils", "beans", "test_rice", "yogurt", "egg" >>

\* sum over the ingredients of field * (w * percentage / 100) / 100, in
\* units of 1/1000000 of the field's unit of Ingredients
ExactTotal(meal, w, field) ==
  SumSeq([ k \in DOMAIN IngredientNames |->
             Ingredients[IngredientNames[k]][field] * w
               * LinePercentage(meal, IngredientNames[k]) ])

\* v is n/d rounded to the nearest integer, a tie going to the even one
IsRoundedOnce(v, n, d) ==
  /\ 2 * Abs(v * d - n) <= d
  /\ 2 * Abs(v * d - n) = d => v % 2 = 0

\* C16: computing the nutrition of a meal that has no recipe lines fails with
\* InvalidRecipe, in the calculation endpoint and in the meal list alike.
C16_EmptyRecipeRejected ==
  \A k \in DOMAIN nutrition_log :
    LET e == nutrition_log[k]
    IN  /\ ( /\ e.view = "calculate_meal_nutrition"
             /\ e.weight_g.tag = "int"
             /\ MealsWithId(e.meal_id) # { }
             /\ MealOf(e.meal_id).recipe_items = << >> )
           => e.response.error = "InvalidRecipe"
        /\ ( /\ e.view = "list_egyptian_meals"
             /\ \E i \in DOMAIN EngineMeals : EngineMeals[i].recipe_items = << >> )
           => e.response.error = "InvalidRecipe"

\* C17: every nutrient a calculation reports is the sum over the recipe lines
\* of nutrientPer100 * (w * percentage / 100) / 100 rounded once to one
\* decimal; a recipe of one ingredient at 100% reports at 200 g twice the
\* per-100 value (720 for 360, 260 for 130); the meal list, which supplies no
\* weight, reports the values of the default serving weight.
C17_NutrientsAreRoundedSums ==
  \A k \in DOMAIN nutrition_log :
    LET e == nutrition_log[k]
    IN  /\ Calculated(e) =>
             LET meal == MealOf(e.meal_id)
                 w == e.weight_g.n
                 nutrition == e.response.nutrition
             IN  /\ \A f \in Nutrients :
                      IsRoundedOnce(nutrition[f], ExactTotal(meal, w, Per100Field(f)),
                                    100000)
                 /\ ( /\ Len(meal.recipe_items) = 1
                      /\ meal.recipe_items[1].percentage = 100
                      /\ w = 200 )
                    => \A f \in Nutrients :
                         10 * nutrition[f]
                           = 2 * Ingredients[meal.recipe_items[1].ingredient][Per100Field(f)]
                 /\ (e.meal_id = "test_rice_meal" /\ w = 200)
                    => nutrition.calories = 7200 /\ nutrition.protein = 140
                 /\ (e.meal_id = "rice_bowl" /\ w = 200) => nutrition.calories = 2600
        /\ e.view = "list_egyptian_meals" =>
             \A i \in DOMAIN e.response.meals :
               \A f \in Nutrients :
                 IsRoundedOnce(e.response.meals[i].nutrition[f],
                               ExactTotal(EngineMeals[i],
                                          EngineMeals[i].default_serving_weight_g,
                                          Per100Field(f)),
                               100000)

\* C17 witness: the meal list was returned, then the fixture meal at 200 g
\* with 720 kcal
C17_ListThenRiceAt200 ==
  /\ Len(nutrition_log) = 2
  /\ nutrition_log[1].view = "list_egyptian_meals"
  /\ Calculated(nutrition_log[2])
  /\ nutrition_log[2].meal_id = "test_rice_meal"
  /\ nutrition_log[2].weight_g = Number(200)
  /\ nutrition_log[2].response.nutrition.calories = 7200

\* the last two calculations are of one meal, the second at twice the weight
DoubledWeight ==
  /\ Len(nutrition_log) = 2
  /\ Calculated(nutrition_log[1])
  /\ Calculated(nutrition_log[2])
  /\ nutrition_log[1].meal_id = nutrition_log[2].meal_id
  /\ nutrition_log[2].weight_g.n = 2 * nutrition_log[1].weight_g.n

\* C18: at twice the weight every nutrient is twice the nutrient, to within
\* 0.1, and the price is twice the price, to within one currency unit.
C18_DoublingWeightDoubles ==
  DoubledWeight =>
    LET once == nutrition_log[1].response.nutrition
        twice == nutrition_log[2].response.nutrition
    IN  /\ \A f \in Nutrients : Abs(twice[f] - 2 * once[f]) <= 1
        /\ Abs(twice.price - 2 * once.price) <= 100

\* C18 witness: a doubling where a nutrient and the price are not exactly twice
C18_DoubledWithinTolerance ==
  /\ DoubledWeight
  /\ nutrition_log[1].weight_g.n > 0
  /\ \E f \in Nutrients :
       nutrition_log[2].response.nutrition[f]
         # 2 * nutrition_log[1].response.nutrition[f]
  /\ nutrition_log[2].response.nutrition.price
       # 2 * nutrition_log[1].response.nutrition.price

\* the meals whose name contains one of the keywords of the lower markup
LightMeals == { "koshary", "foul", "yogurt_salad" }

TierOrder == << "metro", "major_city", "regional", "provincial", "rural" >>

Tiers == { TierOrder[k] : k \in DOMAIN TierOrder }

TierRank(category) == CHOOSE k \in DOMAIN TierOrder : TierOrder[k] = category

\* the last two prices are of one method and one base price that is not negative
SameBasePrice ==
  /\ Len(price_log) = 2
  /\ price_log[1].method = price_log[2].method
  /\ price_log[1].base_price = price_log[2].base_price
  /\ price_log[1].base_price >= 0

\* C20: in each of the four implementations, for a base price that is not
\* negative, a tier that comes earlier in metro, major_city, regional,
\* provincial, rural has a price at least as high, a category outside the
\* five has exactly the metro price, and no category has a price above the
\* metro price.
C20_TiersOrderedUnknownIsMetro ==
  SameBasePrice =>
    LET a == price_log[1]
        b == price_log[2]
    IN  /\ ( /\ a.location_category \in Tiers
             /\ b.location_category \in Tiers
             /\ TierRank(a.location_category) <= TierRank(b.location_category) )
           => a.price >= b.price
        /\ (a.location_category \notin Tiers /\ b.location_category = "metro")
           => a.price = b.price
        /\ b.location_category = "metro" => a.price <= b.price

\* C20 witness: an unknown category, then metro, for the same positive price
C20_UnknownThenMetro ==
  /\ SameBasePrice
  /\ price_log[1].method = "Ingredient.get_price_for_location"
  /\ price_log[1].base_price > 0
  /\ price_log[1].location_category = "village"
  /\ price_log[2].location_category = "metro"
  /\ price_log[2].price = 100 * price_log[2].base_price

\* ------------------------------------------ properties of the price receiver
Submitted == submissions' # submissions

StoredUnchanged == UNCHANGED << daily_prices, vendors, market_prices >>

\* C21: a submission whose X-API-Key is missing or wrong is answered with 401
\* and leaves the DailyPrice, Vendor and MarketPrice rows as they were,
\* whatever its payload.
C21_BadKeyChangesNothing ==
  [][ (Submitted /\ submission'.api_key # "COINCAL_PRICE_ANCHOR_2026")
        => (submission'.status = 401 /\ StoredUnchanged) ]_vars

\* C21 witness: rows are stored and a keyless submission of valid items got 401
C21_RejectedAfterStored ==
  /\ submission.status = 401
  /\ submission.api_key = ""
  /\ submission.items # << >>
  /\ \A i \in DOMAIN submission.items :
       submission.items[i].price_egp.tag = "int" /\ submission.items[i].price_egp.n > 0
  /\ daily_prices # << >>
  /\ market_prices # << >>

\* an item's price_egp is missing, not a number, zero or negative
BadPrice(item) ==
  \/ item.price_egp.tag = "absent"
  \/ item.price_egp.tag = "text"
  \/ item.price_egp.tag = "int" /\ item.price_egp.n <= 0

\* C22: a submission with the right key in which some item has a missing,
\* non-numeric, zero or negative price_egp is answered with 400 and an error
\* under 'items', and leaves the DailyPrice, Vendor and MarketPrice rows as
\* they were.
C22_BadItemRejectsAll ==
  [][ ( /\ Submitted
        /\ submission'.api_key = "COINCAL_PRICE_ANCHOR_2026"
        /\ \E i \in DOMAIN submission'.items : BadPrice(submission'.items[i]) )
        => ( /\ submission'.status = 400
             /\ submission'.error = "items"
             /\ StoredUnchanged ) ]_vars

\* C22 witness: a valid item listed before a bad one, rejected with 400 while
\* rows of an earlier submission are stored and the valid item has no row
C22_ValidItemBeforeBadOne ==
  /\ submission.status = 400
  /\ Len(submission.items) = 2
  /\ ~ BadPrice(submission.items[1])
  /\ BadPrice(submission.items[2])
  /\ daily_prices # << >>
  /\ market_prices # << >>
  /\ \A i \in DOMAIN daily_prices :
       daily_prices[i].item_id # submission.items[1].item_id

\* the price a payload submits last for an item_id
LastSubmitted(items, item_id) ==
  LET at == { i \in DOMAIN items : items[i].item_id = item_id }
      last == CHOOSE i \in at : \A j \in at : j <= i
  IN  items[last].price_egp.n

RowsOfKey(rows, item_id, source, date) ==
  { i \in DOMAIN rows : /\ rows[i].item_id = item_id
                        /\ rows[i].store_name = source
                        /\ rows[i].date = date }

\* C23: after a successful submission every submitted (item_id, source, date)
\* has exactly one DailyPrice row and it holds the price submitted (last) for
\* it, whatever was stored for it before; when the payload is the one of the
\* submission before, the number of rows is unchanged.
C23_OneRowPerKeyNewestPrice ==
  [][ (Submitted /\ submission'.status = 201) =>
        /\ \A k \in DOMAIN submission'.items :
             LET item == submission'.items[k]
                 found == RowsOfKey(daily_prices', item.item_id,
                                    submission'.source, submission'.date)
             IN  /\ Cardinality(found) = 1
                 /\ \A i \in found :
                      daily_prices'[i].price_egp
                        = LastSubmitted(submission'.items, item.item_id)
        /\ ( /\ submission.status = 201
             /\ submission.items = submission'.items
             /\ submission.date = submission'.date
             /\ submission.source = submission'.source )
           => Len(daily_prices') = Len(daily_prices) ]_vars

\* C23 witness: the second submission replaced the price of the first
C23_PriceOverwritten ==
  /\ submissions = 2
  /\ submission.status = 201
  /\ Len(submission.items) = 2
  /\ Len(daily_prices) = 2
  /\ \E i \in DOMAIN daily_prices :
       /\ daily_prices[i].item_id = "rice_1kg"
       /\ daily_prices[i].price_egp = 2700
  /\ \E i \in DOMAIN market_prices :
       /\ market_prices[i].price_egp = 2700
       /\ ~ market_prices[i].is_price_verified

\* ---- C24
LoggedOn(day) == { i \in DOMAIN meal_logs : meal_logs[i].date = day }

RECURSIVE SumOver(_, _, _)
SumOver(rows, at, field) ==
  IF at = { } THEN 0
  ELSE LET i == CHOOSE j \in at : TRUE
       IN  rows[i][field] + SumOver(rows, at \ { i }, field)

LogDays == { "today", "yesterday" }

\* C24: whenever no log request is in progress, the DailySummary of each date
\* holds the sum of final_calories and the sum of final_price of the user's
\* MealLog rows of that date, for requests handled one after the other.
C24_SummaryEqualsSumOfLogs ==
  log_pc = "idle" =>
    \A day \in LogDays :
      /\ SummaryOf(day).total_calories_consumed
           = SumOver(meal_logs, LoggedOn(day), "final_calories")
      /\ SummaryOf(day).total_budget_spent
           = SumOver(meal_logs, LoggedOn(day), "final_price")

\* two rows with calories and a price were logged on the same date
C24_TwoMealsLoggedOnOneDay ==
  /\ log_pc = "idle"
  /\ \E day \in LogDays :
       /\ Cardinality(LoggedOn(day)) = 2
       /\ \A i \in LoggedOn(day) :
            meal_logs[i].final_calories > 0 /\ meal_logs[i].final_price > 0
       /\ \E i, j \in LoggedOn(day) : meal_logs[i] # meal_logs[j]

\* ---- C25
\* C25: the stored water count of the day never decreases, in any interleaving
\* of the user's water, meal logging and dashboard requests.
C25_WaterCountNeverDecreases ==
  [][ summary_db'.water_intake_cups >= summary_db.water_intake_cups ]_vars

\* ---- C26
\* the category the location table gives for a city name as entered
CategoryOfCity(city) ==
  CASE city \in { "Sohag", " SOHAG " }          -> "provincial"
    [] city \in { "Alexandria", "alexandria " } -> "major_city"
    [] city = "Tanta"                           -> "regional"
    [] OTHER                                    -> "metro"

\* C26: every saved profile with a non-empty current_location carries the
\* category of that city name taken without case and surrounding blanks,
\* metro for a city outside the table, whatever category it carried before.
C26_CategoryFollowsCity ==
  profile_db.current_location # "" =>
    profile_db.location_category = CategoryOfCity(profile_db.current_location)

\* a profile that carried another category was saved with a new city
C26_CategoryReplacedOnSave ==
  /\ update_pc = "idle"
  /\ other_calls > 0
  /\ update_profile.location_category = "provincial"
  /\ update_profile.current_location = " SOHAG "
  /\ profile_db.current_location = "Alexandria"
  /\ profile_db.location_category = "major_city"

\* ---- C27
\* C27: whenever no plan request is in progress, the stored rotation index is
\* the index stored before the first request advanced by one modulo 5 for
\* every request received, whatever the requests returned.
C27_EveryCallAdvancesRotation ==
  (calls > 0 /\ pc[1] = "done") =>
    profile_db.last_plan_variant = (first_variant + calls) % NUM_STRATEGIES

\* ---- C28
\* C28: once the pools of a request are built, no candidate of the breakfast,
\* lunch or dinner pool is classified as a side, whatever source it came from.
C28_NoSideInMainPools ==
  \A r \in Requests :
    Built(r) => \A c \in MainPooled(local[r]) : ~ is_side_dish(c)

\* ---- C29
PlanSum(plan, field) == SumSeq([ i \in DOMAIN plan |-> plan[i][field] ])

SlotNames(slots) == { slots[i].name : i \in DOMAIN slots }

SlotsNamed(slots, name) == { i \in DOMAIN slots : slots[i].name = name }

====
